---- MODULE Spec2Model ----
(***************************************************************************)
(* Model of dataplexutils/metadata/wizard.py: the metadata wizard client   *)
(* that generates table and column descriptions and publishes them to the  *)
(* warehouse (BigQuery) and the catalog (Dataplex), directly or through    *)
(* draft aspects.                                                          *)
(*                                                                         *)
(* Text is a sequence of tokens, identifiers (aspect types, aspect keys,   *)
(* paths) are sequences of their segments, so that prefixing, truncation   *)
(* and suffix matching are computed and not assumed.                       *)
(***************************************************************************)
EXTENDS Integers, Sequences, FiniteSets, TLC

VARIABLES
    client_options,   \* Client._client_options: the eight capability flags
    configured,       \* the flags as given to Client.__init__ (never written)
    bq,               \* warehouse: table_fqn -> [description, schema]
    catalog,          \* catalog: table_fqn -> entry.aspects (aspect key -> aspect)
    aspect_types,     \* ids of the aspect types that exist in the project
    last,             \* the last operation: arguments, collaborator calls, outcome
    calls             \* number of operations called on the client so far

vars == <<client_options, configured, bq, catalog, aspect_types, last, calls>>

----------------------------------------------------------------------------
(* Bounds of the model *)

\* datetime.datetime.now() returns one of the instants 1..MaxClock
MaxClock == 1
\* operations called on one client
MaxCalls == 2

----------------------------------------------------------------------------
(* Program constants *)

retries == 3
base_delay == 1
\* constants["DATA"]["MAX_COLUMN_DESC_LENGTH"], counted in tokens
MAX_COLUMN_DESC_LENGTH == 3
\* the literal "2023-06-15T10:00:00Z" of a new draft; clock values are later
FixedGenerationDate == 0

PROJECT_ID == "p"
ASPECT_TEMPLATE_name == "draft-description"
AI_WARNING == <<"AI_WARNING">>

NoException == "none"

----------------------------------------------------------------------------
(* Text and identifiers *)

EndsWith(s, suffix) ==
    /\ Len(s) >= Len(suffix)
    /\ SubSeq(s, Len(s) - Len(suffix) + 1, Len(s)) = suffix

\* projects/{project}/locations/global/aspectTypes/{name}
StagingAspectType ==
    <<"projects", PROJECT_ID, "locations", "global", "aspectTypes", ASPECT_TEMPLATE_name>>

OverviewAspectType ==
    <<"projects", "dataplex-types", "locations", "global", "aspectTypes", "overview">>

\* {project}.global.{name}
TableDraftKey == <<PROJECT_ID, "global", ASPECT_TEMPLATE_name>>

\* {project}.global.{name}@Schema.{column_name}
ColumnDraftKey(column_name) ==
    <<PROJECT_ID, "global", ASPECT_TEMPLATE_name, "@", "Schema", column_name>>

\* dataplex-types.global.overview
OverviewKey == <<"dataplex-types", "global", "overview">>

\* The catalog derives an aspect's path from its key: the part after "@".
PathOfKey(key) ==
    IF \E i \in 1..Len(key) : key[i] = "@"
    THEN LET i == CHOOSE j \in 1..Len(key) : key[j] = "@"
         IN  SubSeq(key, i + 1, Len(key))
    ELSE <<>>

----------------------------------------------------------------------------
(* The dataset and what the collaborators hold about it *)

Tables == {"p.d.a"}
MissingTable == "p.d.zz"
TableArgs == Tables \cup {MissingTable}

SchemaField(name, description) ==
    [name |-> name, field_type |-> "STRING", mode |-> "NULLABLE",
     default_value_expression |-> "NULL", description |-> description,
     fields |-> <<>>, policy_tags |-> <<"pii">>, precision |-> 0, max_length |-> 0]

\* column c1 of p.d.a is a record with one sub-field
InitialSchema(t) ==
    IF t = "p.d.a"
    THEN <<[SchemaField("c1", <<"d1">>) EXCEPT !.field_type = "RECORD",
                                              !.fields = <<"c1.sub">>],
           SchemaField("c2", <<"d2">>)>>
    ELSE <<SchemaField("c1", <<"e1">>)>>

MaxColumns == Len(InitialSchema("p.d.a"))
ColumnArgs == {"c1", "c2", "nocol"}
DraftColumns == {"c1"}

\* lineage links, scan results: p.d.a has every signal, p.d.b has none,
\* p.d.c has source tables but no source job, a profile but no quality result
TableSources(t) == IF t \in {"p.d.a", "p.d.c"} THEN <<"p.d.src">> ELSE <<>>
JobSources(t) == IF t = "p.d.a" THEN <<"SELECT">> ELSE <<>>
ProfileScan(t) == IF t \in {"p.d.a", "p.d.c"} THEN <<"profile">> ELSE <<>>
QualityScan(t) == IF t = "p.d.a" THEN <<"quality">> ELSE <<>>

\* texts the generative model may return
Outputs == {<<"X">>, <<"Y", "Y", "Y">>}

\* human_comments argument: Python None, or a list
NoComments == [none |-> TRUE, items |-> <<>>]
CommentList(items) == [none |-> FALSE, items |-> items]

NoDocument == "None"
DocumentationUris == {NoDocument}

----------------------------------------------------------------------------
(* PromptManager: a prompt is the sequence of the template fragments used *)

Clause(flag, name) == IF flag THEN <<name>> ELSE <<>>

\* Variant: the lineage-generation fragment follows the source tables alone.
get_prompt_table_lineage_tables_only(opts) ==
    <<"SYSTEM_PROMPT", "TABLE_DESCRIPTION_PROMPT_BASE">>
    \o Clause(opts.use_profile, "TABLE_DESCRIPTION_PROMPT_PROFILE")
    \o Clause(opts.use_data_quality, "TABLE_DESCRIPTION_PROMPT_QUALITY")
    \o Clause(opts.use_lineage_tables, "TABLE_DESCRIPTION_PROMPT_LINEAGE_TABLES")
    \o Clause(opts.use_lineage_processes, "TABLE_DESCRIPTION_PROMPT_LINEAGE_PROCESSES")
    \o Clause(opts.use_ext_documents, "TABLE_DESCRIPTION_PROMPT_DOCUMENT")
    \o <<"TABLE_DESCRIPTION_GENERATION_BASE">>
    \o Clause(opts.use_lineage_tables, "TABLE_DESCRIPTION_GENERATION_LINEAGE")
    \o <<"OUTPUT_FORMAT_PROMPT">>

get_prompt_table(opts) ==
    <<"SYSTEM_PROMPT", "TABLE_DESCRIPTION_PROMPT_BASE">>
    \o Clause(opts.use_profile, "TABLE_DESCRIPTION_PROMPT_PROFILE")
    \o Clause(opts.use_data_quality, "TABLE_DESCRIPTION_PROMPT_QUALITY")
    \o Clause(opts.use_lineage_tables, "TABLE_DESCRIPTION_PROMPT_LINEAGE_TABLES")
    \o Clause(opts.use_lineage_processes, "TABLE_DESCRIPTION_PROMPT_LINEAGE_PROCESSES")
    \o Clause(opts.use_ext_documents, "TABLE_DESCRIPTION_PROMPT_DOCUMENT")
    \o <<"TABLE_DESCRIPTION_GENERATION_BASE">>
    \o Clause(opts.use_lineage_tables \/ opts.use_lineage_processes,
              "TABLE_DESCRIPTION_GENERATION_LINEAGE")
    \o <<"OUTPUT_FORMAT_PROMPT">>

\* Variant: the document fragment is added to the prompt of a column too.
get_prompt_columns_with_document(opts) ==
    <<"SYSTEM_PROMPT", "COLUMN_DESCRIPTION_PROMPT_BASE">>
    \o Clause(opts.use_profile, "TABLE_DESCRIPTION_PROMPT_PROFILE")
    \o Clause(opts.use_data_quality, "TABLE_DESCRIPTION_PROMPT_QUALITY")
    \o Clause(opts.use_lineage_tables, "TABLE_DESCRIPTION_PROMPT_LINEAGE_TABLES")
    \o Clause(opts.use_lineage_processes, "TABLE_DESCRIPTION_PROMPT_LINEAGE_PROCESSES")
    \o Clause(opts.use_ext_documents, "TABLE_DESCRIPTION_PROMPT_DOCUMENT")
    \o <<"OUTPUT_FORMAT_PROMPT">>

get_prompt_columns(opts) ==
    <<"SYSTEM_PROMPT", "COLUMN_DESCRIPTION_PROMPT_BASE">>
    \o Clause(opts.use_profile, "TABLE_DESCRIPTION_PROMPT_PROFILE")
    \o Clause(opts.use_data_quality, "TABLE_DESCRIPTION_PROMPT_QUALITY")
    \o Clause(opts.use_lineage_tables, "TABLE_DESCRIPTION_PROMPT_LINEAGE_TABLES")
    \o Clause(opts.use_lineage_processes, "TABLE_DESCRIPTION_PROMPT_LINEAGE_PROCESSES")
    \o <<"OUTPUT_FORMAT_PROMPT">>

----------------------------------------------------------------------------
(* A call runs on a world record w: the client's flags, the collaborators' *)
(* contents, the calls made so far, the exception raised (if any) and the  *)
(* value returned by the last step.                                        *)

Log(w, call) == [w EXCEPT !.log = Append(@, call)]
Raise(w, e) == [w EXCEPT !.exc = e]
Return(w, v) == [w EXCEPT !.ret = v]

\* Variant: the answer of the warehouse is not looked at (C25 tells the two
\* apart).
table_exists_unchecked(w, table_fqn) == Log(w, "bq.get_table")

table_exists(w, table_fqn) ==
    LET w1 == Log(w, "bq.get_table")
    IN  IF table_fqn \in DOMAIN w1.bq THEN w1 ELSE Raise(w1, "NotFound")

get_table_schema(w, table_fqn) ==
    LET w1 == Log(w, "bq.get_table")
    IN  IF table_fqn \in DOMAIN w1.bq
        THEN Return(w1, w1.bq[table_fqn].schema)
        ELSE Raise(w1, "NotFound")

get_table_sample(w, table_fqn) == Log(w, "bq.query")

get_table_profile_quality(w, use_enabled, table_fqn) ==
    IF use_enabled
    THEN Return(Log(w, "datascan.list_data_scans"),
                [data_profile |-> ProfileScan(table_fqn),
                 data_quality |-> QualityScan(table_fqn)])
    ELSE Return(w, [data_profile |-> <<>>, data_quality |-> <<>>])

\* Variant: the commented assignment is in force, an empty profile clears
\* use_profile (C40 tells the two apart).
get_table_profile_clearing_flag(w, use_enabled, table_fqn) ==
    LET w1 == get_table_profile_quality(w, use_enabled, table_fqn)
    IN  IF use_enabled /\ w1.ret.data_profile = <<>>
        THEN Return([w1 EXCEPT !.opts.use_profile = FALSE], <<>>)
        ELSE Return(w1, w1.ret.data_profile)

\* the flag is left alone when the result is empty (the assignment is commented out)
get_table_profile(w, use_enabled, table_fqn) ==
    LET w1 == get_table_profile_quality(w, use_enabled, table_fqn)
    IN  Return(w1, w1.ret.data_profile)

get_table_quality(w, use_enabled, table_fqn) ==
    LET w1 == get_table_profile_quality(w, use_enabled, table_fqn)
    IN  Return(w1, w1.ret.data_quality)

\* env.fault = "lineage": the lineage service rejects search_links
get_table_sources(w, table_fqn, env) ==
    LET w1 == Log(Log(w, "bq.get_dataset"), "lineage.search_links")
    IN  IF env.fault = "lineage" THEN Raise(w1, "LineageError")
        ELSE Return(w1, TableSources(table_fqn))

get_table_sources_info(w, use_enabled, table_fqn, env) ==
    IF use_enabled
    THEN LET w1 == get_table_sources(w, table_fqn, env)
         IN  IF w1.exc # NoException THEN w1
             ELSE IF w1.ret = <<>>
             THEN [w1 EXCEPT !.opts.use_lineage_tables = FALSE]
             ELSE Return(Log(w1, "bq.get_table"), w1.ret)
    ELSE Return(w, <<>>)

\* a failure of search_links is logged and an empty list returned: the flag
\* is left as it was
get_job_sources(w, use_enabled, table_fqn, env) ==
    IF use_enabled
    THEN LET w1 == Log(Log(w, "bq.get_dataset"), "lineage.search_links")
         IN  IF env.fault = "lineage"
             THEN Return(Log(w1, "logger.error(Cannot find lineage links)"), <<>>)
             ELSE IF TableSources(table_fqn) # <<>>
             THEN LET w2 == Log(w1, "lineage.batch_search_link_processes")
                      bq_process_sql == JobSources(table_fqn)
                      w3 == IF bq_process_sql = <<>>
                            THEN [w2 EXCEPT !.opts.use_lineage_processes = FALSE]
                            ELSE w2
                  IN  Return(w3, bq_process_sql)
             ELSE Return([w1 EXCEPT !.opts.use_lineage_processes = FALSE], <<>>)
    ELSE Return(w, <<>>)

----------------------------------------------------------------------------
(* _llm_inference: outcome.fails attempts fail, the next one returns        *)
(* outcome.text                                                            *)

LlmOutcomes == [fails : 0..(retries + 1), text : Outputs]

\* the outcomes tried in the calls of the client's public operations: success
\* at the first attempt, or every attempt failed
CallOutcomes ==
    {[fails |-> 0, text |-> t] : t \in Outputs}
    \cup {[fails |-> retries + 1, text |-> <<>>]}

\* the exception the model call raises at each attempt (attempt 0 first)
AttemptErrors ==
    <<"InferenceError at attempt 0", "InferenceError at attempt 1",
      "InferenceError at attempt 2", "InferenceError at attempt 3">>

IsInferenceError(e) == \E i \in DOMAIN AttemptErrors : AttemptErrors[i] = e

\* what generate_content did at one attempt
AttemptFailed(e) == [ok |-> FALSE, error |-> e, text |-> <<>>]
AttemptSucceeded(text) == [ok |-> TRUE, error |-> NoException, text |-> text]

\* Variant: the wait grows by base_delay at each retry instead of doubling
\* (C12 tells the two apart).
RECURSIVE llm_attempt_linear_backoff(_, _, _, _)
llm_attempt_linear_backoff(w, documentation_uri, outcome, attempt) ==
    LET w1 == Log(w, IF documentation_uri # NoDocument
                     THEN "llm.generate_content(doc)"
                     ELSE "llm.generate_content")
    IN  IF attempt >= outcome.fails
        THEN Return([w1 EXCEPT !.attempts = Append(@, AttemptSucceeded(outcome.text))],
                    outcome.text)
        ELSE LET e == AttemptErrors[attempt + 1]
                 w2 == [w1 EXCEPT !.attempts = Append(@, AttemptFailed(e))]
             IN  IF attempt = retries
                 THEN Raise(w2, e)
                 ELSE llm_attempt_linear_backoff(
                          [w2 EXCEPT !.sleeps = Append(@, base_delay * (attempt + 1))],
                          documentation_uri, outcome, attempt + 1)

\* One pass of the loop "for attempt in range(retries+1)". w.attempts lists
\* what generate_content did at each attempt, w.sleeps the waits.
RECURSIVE llm_attempt(_, _, _, _)
llm_attempt(w, documentation_uri, outcome, attempt) ==
    LET w1 == Log(w, IF documentation_uri # NoDocument
                     THEN "llm.generate_content(doc)"
                     ELSE "llm.generate_content")
    IN  IF attempt >= outcome.fails
        THEN Return([w1 EXCEPT !.attempts = Append(@, AttemptSucceeded(outcome.text))],
                    outcome.text)
        ELSE LET e == AttemptErrors[attempt + 1]
                 w2 == [w1 EXCEPT !.attempts = Append(@, AttemptFailed(e))]
             IN  IF attempt = retries
                 THEN Raise(w2, e)
                 ELSE llm_attempt([w2 EXCEPT !.sleeps = Append(@, base_delay * (2 ^ attempt))],
                                  documentation_uri, outcome, attempt + 1)

\* Variant: the client prefixes the text it returns (C13 tells the two apart).
llm_inference_prefixed(w, prompt, documentation_uri, outcome) ==
    LET w1 == llm_attempt([w EXCEPT !.prompt = prompt], documentation_uri, outcome, 0)
    IN  IF w1.exc # NoException THEN w1 ELSE Return(w1, AI_WARNING \o w1.ret)

llm_inference(w, prompt, documentation_uri, outcome) ==
    llm_attempt([w EXCEPT !.prompt = prompt], documentation_uri, outcome, 0)

----------------------------------------------------------------------------
(* Python values that may be None *)

NoneValue == [none |-> TRUE, value |-> <<>>]
Some(v) == [none |-> FALSE, value |-> v]

Min(a, b) == IF a < b THEN a ELSE b

----------------------------------------------------------------------------
(* Warehouse writes *)

\* env.fault = "warehouse": the warehouse rejects update_table
update_table_bq_description(w, table_fqn, description, env) ==
    LET w1 == Log(Log(w, "bq.get_table"), "bq.update_table(description)")
    IN  IF table_fqn \notin DOMAIN w1.bq THEN Raise(w1, "NotFound")
        ELSE IF env.fault = "warehouse" THEN Raise(w1, "WarehouseError")
        ELSE [w1 EXCEPT !.bq[table_fqn].description = description]

update_table_schema(w, table_fqn, schema, env) ==
    LET w1 == Log(Log(w, "bq.get_table"), "bq.update_table(schema)")
    IN  IF table_fqn \notin DOMAIN w1.bq THEN Raise(w1, "NotFound")
        ELSE IF env.fault = "warehouse" THEN Raise(w1, "WarehouseError")
        ELSE [w1 EXCEPT !.bq[table_fqn].schema = schema]

\* Variant: the rebuilt column loses its sub-fields and its policy tags
\* (C22 tells the two apart).
get_updated_column_flat(column, column_description) ==
    [name |-> column.name,
     field_type |-> column.field_type,
     mode |-> column.mode,
     default_value_expression |-> column.default_value_expression,
     description |-> SubSeq(column_description.value, 1,
                            Min(MAX_COLUMN_DESC_LENGTH, Len(column_description.value))),
     fields |-> <<>>,
     policy_tags |-> <<>>,
     precision |-> column.precision,
     max_length |-> column.max_length]

\* column_description is a Python value: slicing None raises TypeError
get_updated_column(column, column_description) ==
    [name |-> column.name,
     field_type |-> column.field_type,
     mode |-> column.mode,
     default_value_expression |-> column.default_value_expression,
     description |-> SubSeq(column_description.value, 1,
                            Min(MAX_COLUMN_DESC_LENGTH, Len(column_description.value))),
     fields |-> column.fields,
     policy_tags |-> column.policy_tags,
     precision |-> column.precision,
     max_length |-> column.max_length]

----------------------------------------------------------------------------
(* Catalog reads and writes *)

\* the aspects of the entry whose type is one of aspect_types
get_entry(w, table_fqn, types) ==
    LET w1 == Log(Log(w, "bq.get_dataset"), "catalog.get_entry")
    IN  IF table_fqn \notin DOMAIN w1.cat THEN Raise(w1, "NotFound")
        ELSE LET aspects == w1.cat[table_fqn]
                 keys == {k \in DOMAIN aspects : aspects[k].aspect_type \in types}
             IN  Return(w1, [k \in keys |-> aspects[k]])

\* Variant: a request the catalog rejects raises (C38 tells the two apart).
update_entry_raising(w, table_fqn, key, aspect, env) ==
    LET w1 == [Log(w, "catalog.update_entry") EXCEPT !.update_keys = Append(@, key)]
    IN  IF env.fault = "catalog"
        THEN Raise([w1 EXCEPT !.stored = Append(@, FALSE)], "CatalogError")
        ELSE LET old == w1.cat[table_fqn]
                 stored == [aspect EXCEPT !.path = PathOfKey(key)]
                 new == [k \in DOMAIN old \cup {key} |->
                            IF k = key THEN stored ELSE old[k]]
             IN  Return([w1 EXCEPT !.cat[table_fqn] = new,
                                   !.stored = Append(@, TRUE)], TRUE)

\* update_entry with update_mask ["aspects"] writes the aspects of the request
\* and no other; a failure is caught by the callers and turned into False.
\* w.update_keys lists the aspect keys of the requests made, w.stored whether
\* each request was carried out.
\* env.fault = "catalog": the catalog rejects update_entry
update_entry(w, table_fqn, key, aspect, env) ==
    LET w1 == [Log(w, "catalog.update_entry") EXCEPT !.update_keys = Append(@, key)]
    IN  IF env.fault = "catalog"
        THEN Return([w1 EXCEPT !.stored = Append(@, FALSE)], FALSE)
        ELSE LET old == w1.cat[table_fqn]
                 stored == [aspect EXCEPT !.path = PathOfKey(key)]
                 new == [k \in DOMAIN old \cup {key} |->
                            IF k = key THEN stored ELSE old[k]]
             IN  Return([w1 EXCEPT !.cat[table_fqn] = new,
                                   !.stored = Append(@, TRUE)], TRUE)

update_table_dataplex_description(w, table_fqn, description, env) ==
    LET aspect == [aspect_type |-> OverviewAspectType, path |-> <<>>,
                   data |-> [content |-> description]]
    IN  update_entry(Log(w, "bq.get_dataset"), table_fqn, OverviewKey, aspect, env)

new_aspect_content(description) ==
    [certified |-> "false",
     user_who_certified |-> "John Doe",
     contents |-> description,
     generation_date |-> FixedGenerationDate,
     to_be_regenerated |-> "false",
     human_comments |-> <<>>,
     negative_examples |-> <<>>,
     external_document_uri |-> "gs://example.com/document"]

\* Variant: the new content replaces the record found (C4 tells the two apart).
table_draft_replaced_data(data, description, now) ==
    new_aspect_content(description)

\* Variant: the merge leaves to_be_regenerated as found (C5 tells the two apart).
table_draft_merged_keeping_flag(data, description, now) ==
    [data EXCEPT !.contents = description,
                 !.generation_date = now]

\* new_aspect.data = entry.aspects[i].data, then update() of three fields
table_draft_merged_data(data, description, now) ==
    [data EXCEPT !.contents = description,
                 !.generation_date = now,
                 !.to_be_regenerated = "false"]

\* the keys that pass the test of the loop over entry.aspects
table_draft_matching(entry) ==
    {i \in DOMAIN entry : /\ EndsWith(i, <<"global", ASPECT_TEMPLATE_name>>)
                          /\ entry[i].path = <<>>}

\* keys are unique in entry.aspects, so at most one key passes the test of the loop
table_draft_data(entry, description, now) ==
    LET matching == table_draft_matching(entry)
    IN  IF matching = {} THEN new_aspect_content(description)
        ELSE table_draft_merged_data(entry[CHOOSE i \in matching : TRUE].data,
                                     description, now)

\* w.clock lists the instants read with datetime.now()
update_table_draft_description(w, table_fqn, description, env) ==
    LET w1 == get_entry(w, table_fqn, {StagingAspectType})
    IN  IF w1.exc # NoException THEN w1
        ELSE LET new_aspect == [aspect_type |-> StagingAspectType, path |-> <<>>,
                                data |-> table_draft_data(w1.ret, description, env.now)]
                 w2 == IF table_draft_matching(w1.ret) = {} THEN w1
                       ELSE [w1 EXCEPT !.clock = Append(@, env.now)]
             IN  update_entry(w2, table_fqn, TableDraftKey, new_aspect, env)

column_draft_merged_data(data, description, now) ==
    [data EXCEPT !.contents = description,
                 !.generation_date = now,
                 !.to_be_regenerated = "false"]

column_draft_matching(entry, column_name) ==
    {i \in DOMAIN entry : /\ EndsWith(i, <<"global", ASPECT_TEMPLATE_name, "@",
                                           "Schema", column_name>>)
                          /\ entry[i].path = <<"Schema", column_name>>}

column_draft_data(entry, column_name, description, now) ==
    LET matching == column_draft_matching(entry, column_name)
    IN  IF matching = {} THEN new_aspect_content(description)
        ELSE column_draft_merged_data(entry[CHOOSE i \in matching : TRUE].data,
                                      description, now)

update_column_draft_description(w, table_fqn, column_name, description, env) ==
    LET w1 == get_entry(w, table_fqn, {StagingAspectType})
    IN  IF w1.exc # NoException THEN w1
        ELSE LET new_aspect == [aspect_type |-> StagingAspectType, path |-> <<>>,
                                data |-> column_draft_data(w1.ret, column_name,
                                                           description, env.now)]
                 w2 == IF column_draft_matching(w1.ret, column_name) = {} THEN w1
                       ELSE [w1 EXCEPT !.clock = Append(@, env.now)]
             IN  update_entry(w2, table_fqn, ColumnDraftKey(column_name), new_aspect, env)

check_if_exists_aspect_type(w, aspect_type_id) ==
    Return(Log(w, "catalog.get_aspect_type"), aspect_type_id \in w.atypes)

create_aspect_type(w, aspect_type_id) ==
    [Log(w, "catalog.create_aspect_type") EXCEPT !.atypes = @ \cup {aspect_type_id}]

----------------------------------------------------------------------------
(* Generation *)

\* Variant: the description is never prefixed (C6 tells the two apart).
never_add_ai_warning(opts, text) == text

\* Variant: the warning is put in front of the text twice (C26 tells the two
\* apart).
add_ai_warning_twice(opts, text) ==
    IF opts.add_ai_warning THEN AI_WARNING \o AI_WARNING \o text ELSE text

add_ai_warning(opts, text) ==
    IF opts.add_ai_warning THEN AI_WARNING \o text ELSE text

\* Variant: the overview aspect is written whatever persist_to_dataplex_catalog
\* says (C1 tells the two apart).
publish_always_persists(w, table_fqn, table_description, env) ==
    IF ~w.opts.stage_for_review
    THEN LET w1 == update_table_bq_description(w, table_fqn, table_description, env)
         IN  IF w1.exc # NoException THEN w1
             ELSE update_table_dataplex_description(w1, table_fqn,
                                                    table_description, env)
    ELSE LET w1 == check_if_exists_aspect_type(w, ASPECT_TEMPLATE_name)
             w2 == IF ~w1.ret THEN create_aspect_type(w1, ASPECT_TEMPLATE_name) ELSE w1
         IN  update_table_draft_description(w2, table_fqn, table_description, env)

\* Variant: a staged description is written to the warehouse as well
\* (C2 tells the two apart).
stage_also_publishes(w, table_fqn, table_description, env) ==
    LET w0 == IF w.opts.stage_for_review
              THEN update_table_bq_description(w, table_fqn, table_description, env)
              ELSE w
    IN  IF w0.exc # NoException THEN w0
        ELSE IF ~w0.opts.stage_for_review
        THEN LET w1 == update_table_bq_description(w0, table_fqn, table_description, env)
             IN  IF w1.exc # NoException THEN w1
                 ELSE IF w1.opts.persist_to_dataplex_catalog
                      THEN update_table_dataplex_description(w1, table_fqn,
                                                             table_description, env)
                      ELSE w1
        ELSE LET w1 == check_if_exists_aspect_type(w0, ASPECT_TEMPLATE_name)
                 w2 == IF ~w1.ret THEN create_aspect_type(w1, ASPECT_TEMPLATE_name)
                       ELSE w1
             IN  update_table_draft_description(w2, table_fqn, table_description, env)

\* Variant: the aspect type is created at every staged generation, whatever
\* the existence check says (C32 tells the two apart).
stage_creates_always(w, table_fqn, table_description, env) ==
    IF ~w.opts.stage_for_review
    THEN LET w1 == update_table_bq_description(w, table_fqn, table_description, env)
         IN  IF w1.exc # NoException THEN w1
             ELSE IF w1.opts.persist_to_dataplex_catalog
                  THEN update_table_dataplex_description(w1, table_fqn,
                                                         table_description, env)
                  ELSE w1
    ELSE LET w1 == check_if_exists_aspect_type(w, ASPECT_TEMPLATE_name)
             w2 == create_aspect_type(w1, ASPECT_TEMPLATE_name)
         IN  update_table_draft_description(w2, table_fqn, table_description, env)

\* Variant: the overview is written before the warehouse description
\* (C37 tells the two apart).
publish_catalog_first(w, table_fqn, table_description, env) ==
    IF ~w.opts.stage_for_review
    THEN LET w1 == IF w.opts.persist_to_dataplex_catalog
                   THEN update_table_dataplex_description(w, table_fqn,
                                                          table_description, env)
                   ELSE w
         IN  update_table_bq_description(w1, table_fqn, table_description, env)
    ELSE LET w1 == check_if_exists_aspect_type(w, ASPECT_TEMPLATE_name)
             w2 == IF ~w1.ret THEN create_aspect_type(w1, ASPECT_TEMPLATE_name) ELSE w1
         IN  update_table_draft_description(w2, table_fqn, table_description, env)

\* the "Update table" branch of generate_table_description
publish_or_stage_table(w, table_fqn, table_description, env) ==
    IF ~w.opts.stage_for_review
    THEN LET w1 == update_table_bq_description(w, table_fqn, table_description, env)
         IN  IF w1.exc # NoException THEN w1
             ELSE IF w1.opts.persist_to_dataplex_catalog
                  THEN update_table_dataplex_description(w1, table_fqn,
                                                         table_description, env)
                  ELSE w1
    ELSE LET w1 == check_if_exists_aspect_type(w, ASPECT_TEMPLATE_name)
             w2 == IF ~w1.ret THEN create_aspect_type(w1, ASPECT_TEMPLATE_name) ELSE w1
         IN  update_table_draft_description(w2, table_fqn, table_description, env)

\* the signals fetched by generate_table_description and
\* generate_columns_descriptions, in the order of the calls
fetch_signals(w, table_fqn, env) ==
    LET w1 == get_table_quality(w, w.opts.use_data_quality, table_fqn)
        w2 == get_table_profile(w1, w1.opts.use_profile, table_fqn)
        w3 == get_table_sources_info(w2, w2.opts.use_lineage_tables, table_fqn, env)
    IN  IF w3.exc # NoException THEN w3
        ELSE LET w4 == get_job_sources(w3, w3.opts.use_lineage_processes, table_fqn, env)
             IN  [w4 EXCEPT !.signals = [table_quality |-> w1.ret,
                                         table_profile |-> w2.ret,
                                         table_sources_info |-> w3.ret,
                                         job_sources_info |-> w4.ret]]

\* the inference of generate_table_description; w holds the signals fetched
table_description_inference(w, documentation_uri, env) ==
    IF w.exc # NoException THEN w
    ELSE llm_inference(w, get_prompt_table(w.opts), documentation_uri, env.llm[1])

\* the value generate_table_description returns when nothing was raised
table_description_generated(w) ==
    IF w.exc # NoException THEN w
    ELSE Return(w, "Table description generated successfully")

\* what generate_table_description does with the answer of the model; w is
\* the world the inference left
table_description_update(w, table_fqn, env) ==
    IF w.exc # NoException THEN w
    ELSE table_description_generated(
             publish_or_stage_table(
                 [w EXCEPT !.generated = Append(@, w.ret),
                           !.descriptions = Append(@, add_ai_warning(w.opts, w.ret))],
                 table_fqn, add_ai_warning(w.opts, w.ret), env))

generate_table_description(w, table_fqn, documentation_uri, human_comments, env) ==
    LET w1 == table_exists([w EXCEPT !.human_comments = human_comments], table_fqn)
    IN  IF w1.exc # NoException THEN w1
        ELSE table_description_update(
                 table_description_inference(
                     fetch_signals(
                         get_table_sample(get_table_schema(w1, table_fqn), table_fqn),
                         table_fqn, env),
                     documentation_uri, env),
                 table_fqn, env)

\* the loop over the columns of generate_columns_descriptions
RECURSIVE generate_columns_loop(_, _, _, _, _, _, _)
generate_columns_loop(w, table_schema, i, updated_schema, prompt, documentation_uri, env) ==
    IF i > Len(table_schema) THEN Return(w, updated_schema)
    ELSE LET w1 == llm_inference(w, prompt, documentation_uri, env.llm[i])
         IN  IF w1.exc # NoException THEN w1
             ELSE LET column_description == add_ai_warning(w1.opts, w1.ret)
                      w2 == [w1 EXCEPT !.generated = Append(@, w1.ret),
                                       !.descriptions = Append(@, column_description)]
                  IN  generate_columns_loop(
                          w2, table_schema, i + 1,
                          Append(updated_schema,
                                 get_updated_column(table_schema[i],
                                                    Some(column_description))),
                          prompt, documentation_uri, env)

\* "raise e(message=...)" calls an exception instance: whatever was caught,
\* the caller sees TypeError
raise_e_called(w) == IF w.exc # NoException THEN Raise(w, "TypeError") ELSE w

\* Variant: when the generation fails for a column, the columns generated so
\* far are written to the warehouse before the failure is reported
\* (C34 tells the two apart).
generate_columns_descriptions_partial(w, table_fqn, documentation_uri, human_comments, env) ==
    LET w1 == table_exists([w EXCEPT !.human_comments = human_comments], table_fqn)
    IN  IF w1.exc # NoException THEN raise_e_called(w1)
        ELSE
        LET w2 == get_table_schema(w1, table_fqn)
            table_schema == w2.ret
            w3 == fetch_signals(get_table_sample(w2, table_fqn), table_fqn, env)
            column_description_prompt == get_prompt_columns(w3.opts)
            w4 == IF w3.exc # NoException THEN w3
                  ELSE generate_columns_loop(w3, table_schema, 1, <<>>,
                                             column_description_prompt,
                                             documentation_uri, env)
            partial_schema ==
                [i \in DOMAIN table_schema |->
                    IF i <= Len(w4.descriptions)
                    THEN get_updated_column(table_schema[i], Some(w4.descriptions[i]))
                    ELSE table_schema[i]]
        IN  IF w4.exc # NoException
            THEN Raise(update_table_schema([w4 EXCEPT !.exc = NoException],
                                           table_fqn, partial_schema, env),
                       "TypeError")
            ELSE raise_e_called(update_table_schema(w4, table_fqn, w4.ret, env))

generate_columns_descriptions(w, table_fqn, documentation_uri, human_comments, env) ==
    LET w1 == table_exists([w EXCEPT !.human_comments = human_comments], table_fqn)
    IN  IF w1.exc # NoException THEN raise_e_called(w1)
        ELSE
        LET w2 == get_table_schema(w1, table_fqn)
            table_schema == w2.ret
            w3 == fetch_signals(get_table_sample(w2, table_fqn), table_fqn, env)
            column_description_prompt == get_prompt_columns(w3.opts)
            w4 == IF w3.exc # NoException THEN w3
                  ELSE generate_columns_loop(w3, table_schema, 1, <<>>,
                                             column_description_prompt,
                                             documentation_uri, env)
        IN  IF w4.exc # NoException THEN raise_e_called(w4)
            ELSE raise_e_called(update_table_schema(w4, table_fqn, w4.ret, env))

----------------------------------------------------------------------------
(* Accepting and regenerating a draft *)

StagingSuffix == <<"aspectTypes", ASPECT_TEMPLATE_name>>

\* "for aspect in entry.aspects": the keys of the entry, in the order env.order
\* gives to the keys of the catalog's entry
IterationOrder(entry, order) == SelectSeq(order, LAMBDA k : k \in DOMAIN entry)

\* The loop of accept_table_draft_description over entry.aspects, visited in
\* the sequence order: every aspect of the staging type that has "contents"
\* assigns overview, whatever its path. overview starts unbound.
RECURSIVE accept_table_scan(_, _, _, _)
accept_table_scan(entry, order, i, overview) ==
    IF i > Len(order) THEN overview
    ELSE LET aspect == entry[order[i]]
         IN  accept_table_scan(
                 entry, order, i + 1,
                 IF /\ EndsWith(aspect.aspect_type, StagingSuffix)
                    /\ "contents" \in DOMAIN aspect.data
                 THEN Some(aspect.data.contents)
                 ELSE overview)

\* Variant: the accepted draft is marked as certified
\* (C39 tells the two apart).
accept_table_draft_description_certifying(w, table_fqn, env) ==
    LET w1 == get_entry(w, table_fqn, {StagingAspectType, OverviewAspectType})
    IN  IF w1.exc # NoException THEN w1
        ELSE
        LET overview == accept_table_scan(w1.ret, IterationOrder(w1.ret, env.order), 1, NoneValue)
        IN  IF overview.none THEN Raise(w1, "UnboundLocalError")
            ELSE
            LET w2 == [w1 EXCEPT !.descriptions = Append(@, overview.value)]
                w3 == update_table_dataplex_description(w2, table_fqn,
                                                        overview.value, env)
                w4 == update_table_bq_description(w3, table_fqn, overview.value, env)
            IN  IF TableDraftKey \in DOMAIN w4.cat[table_fqn]
                THEN [w4 EXCEPT !.cat[table_fqn][TableDraftKey].data.certified = "true"]
                ELSE w4

\* env.order: the order in which the map entry.aspects is iterated
accept_table_draft_description(w, table_fqn, env) ==
    LET w1 == get_entry(w, table_fqn, {StagingAspectType, OverviewAspectType})
    IN  IF w1.exc # NoException THEN w1
        ELSE
        LET overview == accept_table_scan(w1.ret, IterationOrder(w1.ret, env.order), 1, NoneValue)
        IN  IF overview.none THEN Raise(w1, "UnboundLocalError")
            ELSE
            LET w2 == [w1 EXCEPT !.descriptions = Append(@, overview.value)]
                w3 == update_table_dataplex_description(w2, table_fqn,
                                                        overview.value, env)
            IN  update_table_bq_description(w3, table_fqn, overview.value, env)

\* the loop of _update_column_bq_description over the schema
RECURSIVE update_column_loop(_, _, _, _, _)
update_column_loop(table_schema, i, column_name, description, updated_schema) ==
    IF i > Len(table_schema) THEN [exc |-> NoException, schema |-> updated_schema]
    ELSE IF table_schema[i].name = column_name
         THEN IF description.none
              THEN [exc |-> "TypeError", schema |-> updated_schema]
              ELSE update_column_loop(
                       table_schema, i + 1, column_name, description,
                       Append(updated_schema,
                              get_updated_column(table_schema[i], description)))
         ELSE update_column_loop(table_schema, i + 1, column_name, description,
                                 Append(updated_schema, table_schema[i]))

update_column_bq_description(w, table_fqn, column_name, description, env) ==
    LET w1 == table_exists(w, table_fqn)
    IN  IF w1.exc # NoException THEN raise_e_called(w1)
        ELSE
        LET w2 == get_table_schema(w1, table_fqn)
            r == update_column_loop(w2.ret, 1, column_name, description, <<>>)
        IN  IF r.exc # NoException THEN raise_e_called(Raise(w2, r.exc))
            ELSE raise_e_called(update_table_schema(w2, table_fqn, r.schema, env))

\* Variant: the loop tests the aspect type only, as the loop of
\* accept_table_draft_description does (C11 tells the two apart).
RECURSIVE accept_column_scan_any_path(_, _, _, _, _)
accept_column_scan_any_path(entry, order, i, column_name, overview) ==
    IF i > Len(order) THEN overview
    ELSE LET aspect == entry[order[i]]
         IN  accept_column_scan_any_path(
                 entry, order, i + 1, column_name,
                 IF /\ EndsWith(aspect.aspect_type, StagingSuffix)
                    /\ "contents" \in DOMAIN aspect.data
                 THEN Some(aspect.data.contents)
                 ELSE overview)

\* The loop of accept_column_draft_description: overview starts as None.
RECURSIVE accept_column_scan(_, _, _, _, _)
accept_column_scan(entry, order, i, column_name, overview) ==
    IF i > Len(order) THEN overview
    ELSE LET aspect == entry[order[i]]
         IN  accept_column_scan(
                 entry, order, i + 1, column_name,
                 IF /\ EndsWith(aspect.aspect_type, StagingSuffix)
                    /\ EndsWith(aspect.path, <<"Schema", column_name>>)
                    /\ "contents" \in DOMAIN aspect.data
                 THEN Some(aspect.data.contents)
                 ELSE overview)

accept_column_draft_description(w, table_fqn, column_name, env) ==
    LET w1 == get_entry(w, table_fqn, {StagingAspectType})
    IN  IF w1.exc # NoException THEN w1
        ELSE
        LET overview == accept_column_scan(w1.ret, IterationOrder(w1.ret, env.order), 1,
                                        column_name, NoneValue)
            w2 == IF overview.none THEN w1
                  ELSE [w1 EXCEPT !.descriptions = Append(@, overview.value)]
        IN  update_column_bq_description(w2, table_fqn, column_name, overview, env)

\* Variant: the comments of every staging aspect are collected, whatever its
\* path (C8 tells the two apart).
RECURSIVE regenerate_comments_any_path(_, _, _, _)
regenerate_comments_any_path(entry, order, i, comments) ==
    IF i > Len(order) THEN comments
    ELSE LET aspect == entry[order[i]]
         IN  regenerate_comments_any_path(
                 entry, order, i + 1,
                 IF /\ EndsWith(aspect.aspect_type, StagingSuffix)
                    /\ "human_comments" \in DOMAIN aspect.data
                 THEN comments \o aspect.data.human_comments
                 ELSE comments)

\* The loop of regenerate_table_description: comments of the staging aspects
\* at path "".
RECURSIVE regenerate_comments(_, _, _, _)
regenerate_comments(entry, order, i, comments) ==
    IF i > Len(order) THEN comments
    ELSE LET aspect == entry[order[i]]
         IN  regenerate_comments(
                 entry, order, i + 1,
                 IF /\ EndsWith(aspect.aspect_type, StagingSuffix)
                    /\ aspect.path = <<>>
                    /\ "human_comments" \in DOMAIN aspect.data
                 THEN comments \o aspect.data.human_comments
                 ELSE comments)

regenerate_table_description(w, table_fqn, env) ==
    LET w1 == get_entry(w, table_fqn, {StagingAspectType})
    IN  IF w1.exc # NoException THEN w1
        ELSE
        LET comments == regenerate_comments(w1.ret, IterationOrder(w1.ret, env.order), 1, <<>>)
        IN  generate_table_description(w1, table_fqn, NoDocument,
                                       CommentList(comments), env)

----------------------------------------------------------------------------
(* Batch runs over a dataset: the strategies *)

\* constants["GENERATION_STRATEGY"]: the names wizard.py uses.  Their numbers
\* are read from constants.toml; they are taken to differ from each other.
GENERATION_STRATEGY ==
    [NAIVE |-> 1, DOCUMENTED |-> 2, DOCUMENTED_THEN_REST |-> 3,
     ALPHABETICAL |-> 4, RANDOM |-> 5]

StrategyNames == DOMAIN GENERATION_STRATEGY
UnknownStrategy == "BEST_EFFORT"
StrategyArgs == StrategyNames \cup {UnknownStrategy}

\* the dataset of the batch runs and its tables
Dataset == "p.d"
DatasetTables == {"p.d.a", "p.d.b", "p.d.c"}

\* the characters of the names, as code points: Python compares str values
\* code point by code point
CodePoints(name) ==
    CASE name = "p.d.a" -> <<112, 46, 100, 46, 97>>
      [] name = "p.d.b" -> <<112, 46, 100, 46, 98>>
      [] name = "p.d.c" -> <<112, 46, 100, 46, 99>>
      [] name = "p.d.zz" -> <<112, 46, 100, 46, 122, 122>>

\* Variant: the comparison is reversed, so that sorted() is descending
\* (C20 tells the two apart).
RECURSIVE LexGreater(_, _)
LexGreater(s, t) ==
    IF s = <<>> THEN FALSE
    ELSE IF t = <<>> THEN TRUE
    ELSE IF Head(s) # Head(t) THEN Head(s) > Head(t)
    ELSE LexGreater(Tail(s), Tail(t))

\* s < t for two sequences of code points
RECURSIVE LexLess(_, _)
LexLess(s, t) ==
    IF t = <<>> THEN FALSE
    ELSE IF s = <<>> THEN TRUE
    ELSE IF Head(s) # Head(t) THEN Head(s) < Head(t)
    ELSE LexLess(Tail(s), Tail(t))

\* x inserted in the sorted list, after the elements that are not greater
RECURSIVE insert_sorted(_, _)
insert_sorted(x, sorted_list) ==
    IF sorted_list = <<>> THEN <<x>>
    ELSE IF LexLess(CodePoints(x), CodePoints(Head(sorted_list)))
         THEN <<x>> \o sorted_list
         ELSE <<Head(sorted_list)>> \o insert_sorted(x, Tail(sorted_list))

\* sorted(tables): a new list, ascending, stable
RECURSIVE sorted(_)
sorted(tables) ==
    IF tables = <<>> THEN <<>>
    ELSE insert_sorted(tables[Len(tables)], sorted(SubSeq(tables, 1, Len(tables) - 1)))

\* random.shuffle of a copy: shuffle is the permutation of the positions
\* that the generator picks
shuffled(tables, shuffle) == [i \in 1..Len(tables) |-> tables[shuffle[i]]]

\* Variant: RANDOM draws the tables with replacement, so a table may be drawn
\* twice and another never (C19 tells the two apart).
order_tables_random_repeats(tables, strategy, shuffle) ==
    IF strategy = GENERATION_STRATEGY.NAIVE THEN tables
    ELSE IF strategy = GENERATION_STRATEGY.RANDOM
    THEN [i \in 1..Len(tables) |-> tables[shuffle[1]]]
    ELSE IF strategy = GENERATION_STRATEGY.ALPHABETICAL THEN sorted(tables)
    ELSE tables

order_tables_to_strategy(tables, strategy, shuffle) ==
    IF strategy = GENERATION_STRATEGY.NAIVE THEN tables
    ELSE IF strategy = GENERATION_STRATEGY.RANDOM THEN shuffled(tables, shuffle)
    ELSE IF strategy = GENERATION_STRATEGY.ALPHABETICAL THEN sorted(tables)
    ELSE tables

\* client.list_tables: env.listing is the order in which the warehouse lists
\* the tables of the dataset
list_tables_in_dataset(w, dataset_fqn, env) ==
    LET w1 == Log(w, "bq.list_tables")
    IN  Return([w1 EXCEPT !.listed = Append(@, env.listing)], env.listing)

\* The CSV file: a sequence of lines, a line the sequence of its fields
\* (line.split(",")); an empty line has the single field "".
BlankLine == <<"">>

\* the two values of documentation_csv_uri
NoCsv == "None"
CsvUri == "gs://bucket/docs.csv"

RECURSIVE csv_tables(_)
csv_tables(lines) ==
    IF lines = <<>> THEN [exc |-> NoException, tables |-> <<>>]
    ELSE LET rest == csv_tables(Tail(lines))
             line == Head(lines)
         IN  IF line = BlankLine THEN rest
             ELSE IF Len(line) < 2 THEN [exc |-> "IndexError", tables |-> <<>>]
             ELSE IF rest.exc # NoException THEN rest
             ELSE [exc |-> NoException,
                   tables |-> << <<line[1], line[2]>> >> \o rest.tables]

\* env.csv: the lines of the file at the URI.  None has no split().
\* w.tables_from_uri keeps the list returned.
get_tables_from_uri(w, documentation_csv_uri, env) ==
    IF documentation_csv_uri = NoCsv THEN Raise(w, "AttributeError")
    ELSE LET w1 == Log(w, "storage.download_as_text")
             r == csv_tables(env.csv)
         IN  IF r.exc # NoException THEN Raise(w1, r.exc)
             ELSE Return([w1 EXCEPT !.tables_from_uri = r.tables], r.tables)

InList(x, list) == \E i \in DOMAIN list : list[i] = x

\* "table not in tables" with table a (name, document) tuple and tables a
\* list of names: a tuple is equal to no str
PairInNames(table, tables) == FALSE

----------------------------------------------------------------------------
(* The state machine *)

ClientOptions ==
    [use_lineage_tables : {FALSE},
     use_lineage_processes : {FALSE},
     use_profile : {FALSE},
     use_data_quality : {FALSE},
     use_ext_documents : {FALSE},
     persist_to_dataplex_catalog : BOOLEAN,
     stage_for_review : BOOLEAN,
     add_ai_warning : BOOLEAN]

\* ClientOptions.__init__ without arguments
DefaultOptions ==
    [use_lineage_tables |-> FALSE,
     use_lineage_processes |-> FALSE,
     use_profile |-> FALSE,
     use_data_quality |-> FALSE,
     use_ext_documents |-> FALSE,
     persist_to_dataplex_catalog |-> TRUE,
     stage_for_review |-> FALSE,
     add_ai_warning |-> TRUE]

\* A draft as a reviewer left it in the catalog: commented and flagged.
ReviewedDraft(path, contents, comment) ==
    [aspect_type |-> StagingAspectType,
     path |-> path,
     data |-> [certified |-> "false",
               user_who_certified |-> "John Doe",
               contents |-> contents,
               generation_date |-> FixedGenerationDate,
               to_be_regenerated |-> "true",
               human_comments |-> <<comment>>,
               negative_examples |-> <<"too vague">>,
               external_document_uri |-> "gs://example.com/document"]]

Restrict(f, keys) == [k \in keys |-> f[k]]

ReviewedEntry ==
    LET k1 == TableDraftKey
        k2 == ColumnDraftKey("c1")
    IN  [k \in {k1, k2} |->
            IF k = k1 THEN ReviewedDraft(<<>>, <<"T0">>, "table comment")
            ELSE ReviewedDraft(<<"Schema", "c1">>, <<"C0">>, "column comment")]

\* what the catalog may hold when the client is constructed
InitialCatalogs ==
    {[t \in Tables |-> IF t = "p.d.a" THEN Restrict(ReviewedEntry, keys)
                       ELSE Restrict(ReviewedEntry, {})] :
        keys \in SUBSET (DOMAIN ReviewedEntry)}

NoSignals ==
    [table_quality |-> <<>>, table_profile |-> <<>>,
     table_sources_info |-> <<>>, job_sources_info |-> <<>>]

Observation(op, table_fqn, column_name, w) ==
    [op |-> op, table |-> table_fqn, column |-> column_name,
     exc |-> w.exc, log |-> w.log, sleeps |-> w.sleeps, prompt |-> w.prompt,
     signals |-> w.signals, human_comments |-> w.human_comments,
     generated |-> w.generated, descriptions |-> w.descriptions,
     update_keys |-> w.update_keys, stored |-> w.stored, clock |-> w.clock,
     attempts |-> w.attempts, listed |-> w.listed, processed |-> w.processed,
     strategy |-> w.strategy, documentation_csv_uri |-> w.documentation_csv_uri,
     tables_from_uri |-> w.tables_from_uri]

\* the world a call starts in
World ==
    [opts |-> client_options, bq |-> bq, cat |-> catalog, atypes |-> aspect_types,
     log |-> <<>>, sleeps |-> <<>>, exc |-> NoException, ret |-> FALSE,
     prompt |-> <<>>, signals |-> NoSignals, human_comments |-> NoComments,
     generated |-> <<>>, descriptions |-> <<>>, update_keys |-> <<>>,
     stored |-> <<>>, clock |-> <<>>, attempts |-> <<>>,
     listed |-> <<>>, processed |-> <<>>, strategy |-> "",
     documentation_csv_uri |-> "", tables_from_uri |-> <<>>]

\* between two calls nothing is being observed
Idle == Observation("idle", "", "", World)

Init ==
    /\ client_options \in ClientOptions
    /\ configured = client_options
    /\ bq = [t \in Tables |-> [description |-> <<"old">>, schema |-> InitialSchema(t)]]
    /\ catalog \in InitialCatalogs
    /\ aspect_types \in SUBSET {ASPECT_TEMPLATE_name}
    /\ (\E t \in Tables : DOMAIN catalog[t] # {}) => ASPECT_TEMPLATE_name \in aspect_types
    /\ last = Idle
    /\ calls = 0

\* A call ends: its effects on the client and the collaborators stay.
Finish(op, table_fqn, column_name, w) ==
    /\ last = Idle
    /\ calls < MaxCalls
    /\ calls' = calls + 1
    /\ client_options' = w.opts
    /\ bq' = w.bq
    /\ catalog' = w.cat
    /\ aspect_types' = w.atypes
    /\ last' = Observation(op, table_fqn, column_name, w)
    /\ UNCHANGED configured

Orderings(S) ==
    {p \in [1..Cardinality(S) -> S] : \A i, j \in 1..Cardinality(S) : p[i] = p[j] => i = j}

\* the orders in which the aspects of the given types can be returned
KeyOrders(table_fqn, types) ==
    IF table_fqn \in DOMAIN catalog
    THEN Orderings({k \in DOMAIN catalog[table_fqn] :
                       catalog[table_fqn][k].aspect_type \in types})
    ELSE {<<>>}

Times == 1..MaxClock

\* What the collaborators do during one call: the outcome of each inference,
\* the collaborator that rejects its writes (if any), the order in which
\* entry.aspects is iterated, the instant returned by now().
Env(llm, fault, order, now) ==
    [llm |-> llm, fault |-> fault, order |-> order, now |-> now]

Faults == {"none", "warehouse", "catalog"}

GenerateTableDescription ==
    \E table_fqn \in TableArgs, documentation_uri \in DocumentationUris,
       outcome \in CallOutcomes, fault \in Faults, now \in Times :
        Finish("generate_table_description", table_fqn, "",
               generate_table_description(
                   World, table_fqn, documentation_uri, NoComments,
                   Env(<<outcome>>, fault, <<>>, now)))

\* The model answers each column's prompt with the call's text followed by
\* the column's position; the inference for column fails_at (if any) fails.
ColumnOutcomes(text, fails_at) ==
    [i \in 1..MaxColumns |->
        IF i = fails_at THEN [fails |-> retries + 1, text |-> <<>>]
        ELSE [fails |-> 0, text |-> text \o <<ToString(i)>>]]

GenerateColumnsDescriptions ==
    \E table_fqn \in TableArgs, documentation_uri \in DocumentationUris,
       text \in Outputs, fails_at \in 0..MaxColumns,
       fault \in Faults \ {"catalog"} :
        Finish("generate_columns_descriptions", table_fqn, "",
               generate_columns_descriptions(
                   World, table_fqn, documentation_uri, NoComments,
                   Env(ColumnOutcomes(text, fails_at), fault, <<>>, 1)))

AcceptTableDraftDescription ==
    \E table_fqn \in TableArgs, fault \in Faults :
      \E order \in KeyOrders(table_fqn, {StagingAspectType, OverviewAspectType}) :
        Finish("accept_table_draft_description", table_fqn, "",
               accept_table_draft_description(
                   World, table_fqn, Env(<<>>, fault, order, 1)))

AcceptColumnDraftDescription ==
    \E table_fqn \in TableArgs, column_name \in ColumnArgs,
       fault \in Faults \ {"catalog"} :
      \E order \in KeyOrders(table_fqn, {StagingAspectType}) :
        Finish("accept_column_draft_description", table_fqn, column_name,
               accept_column_draft_description(
                   World, table_fqn, column_name, Env(<<>>, fault, order, 1)))

RegenerateTableDescription ==
    \E table_fqn \in TableArgs, outcome \in CallOutcomes, fault \in Faults,
       now \in Times :
      \E order \in KeyOrders(table_fqn, {StagingAspectType}) :
        Finish("regenerate_table_description", table_fqn, "",
               regenerate_table_description(
                   World, table_fqn, Env(<<outcome>>, fault, order, now)))

\* Client._update_column_draft_description, called with a generated description
UpdateColumnDraftDescription ==
    \E table_fqn \in Tables, column_name \in DraftColumns, text \in Outputs,
       fault \in Faults \ {"warehouse"}, now \in Times :
        Finish("update_column_draft_description", table_fqn, column_name,
               update_column_draft_description(
                   [World EXCEPT !.descriptions =
                                     <<add_ai_warning(client_options, text)>>],
                   table_fqn, column_name,
                   add_ai_warning(client_options, text),
                   Env(<<>>, fault, <<>>, now)))

\* the call has returned to its caller: the client waits for the next call
CallReturns ==
    /\ last # Idle
    /\ last' = Idle
    /\ UNCHANGED <<client_options, configured, bq, catalog, aspect_types, calls>>

Next ==
    \/ CallReturns
    \/ GenerateTableDescription
    \/ GenerateColumnsDescriptions
    \/ AcceptTableDraftDescription
    \/ AcceptColumnDraftDescription
    \/ RegenerateTableDescription
    \/ UpdateColumnDraftDescription

Spec == Init /\ [][Next]_vars

----------------------------------------------------------------------------
(* Batch runs over a dataset: generate_dataset_tables_descriptions and
   generate_dataset_tables_columns_descriptions.  The two methods have the
   same text but for the call of generate_columns_descriptions that follows
   each call of generate_table_description in the second: with_columns tells
   them apart.  env gives, for the whole run: text, the model's answer;
   fails_at, the position of the table whose inference fails (0: none), and
   fails_in, the call in which it fails; listing; csv; shuffle. *)

BatchEnv(text, fails_at, fails_in, fault, now, listing, csv, shuffle) ==
    [text |-> text, fails_at |-> fails_at, fails_in |-> fails_in, fault |-> fault,
     now |-> now, listing |-> listing, csv |-> csv, shuffle |-> shuffle]

InferenceFails == [fails |-> retries + 1, text |-> <<>>]

\* what the collaborators do during the calls made for the j-th table
table_env(env, j) ==
    Env(<<IF env.fails_at = j /\ env.fails_in = "table"
          THEN InferenceFails ELSE [fails |-> 0, text |-> env.text]>>,
        env.fault, <<>>, env.now)

columns_env(env, j) ==
    Env(ColumnOutcomes(env.text,
                       IF env.fails_at = j /\ env.fails_in = "columns" THEN 1 ELSE 0),
        env.fault, <<>>, env.now)

\* the call of generate_columns_descriptions that follows the call of
\* generate_table_description in the columns variant; w is the world the
\* call for the table left, j the position of the table in the run
generate_columns_after(w, table_fqn, documentation_uri, with_columns, env, j) ==
    IF w.exc # NoException \/ ~with_columns THEN w
    ELSE generate_columns_descriptions(w, table_fqn, documentation_uri, NoComments,
                                       columns_env(env, j))

\* the calls made for one table; w.processed lists the arguments of the calls
\* of generate_table_description
generate_one(w, table_fqn, documentation_uri, with_columns, env) ==
    generate_columns_after(
        generate_table_description(
            [w EXCEPT !.processed =
                Append(@, [table |-> table_fqn, documentation_uri |-> documentation_uri])],
            table_fqn, documentation_uri, NoComments,
            table_env(env, Len(w.processed) + 1)),
        table_fqn, documentation_uri, with_columns, env, Len(w.processed) + 1)

\* In the loops below w is the world the iterations before i left: an
\* exception raised in one of them ends the loop.

\* Variant: the tables of the mapping are generated without their documents
\* (C17 tells the two apart).
RECURSIVE documented_loop_no_document(_, _, _, _, _, _)
documented_loop_no_document(w, tables_from_uri, i, tables, with_columns, env) ==
    IF w.exc # NoException \/ i > Len(tables_from_uri) THEN w
    ELSE IF ~InList(tables_from_uri[i][1], tables)
    THEN Raise(w, "ValueError: table not found in dataset")
    ELSE documented_loop_no_document(
             generate_one(w, tables_from_uri[i][1], NoDocument, with_columns, env),
             tables_from_uri, i + 1, tables, with_columns, env)

\* the loop of the DOCUMENTED strategy: "if table[0] not in tables"
RECURSIVE documented_loop(_, _, _, _, _, _)
documented_loop(w, tables_from_uri, i, tables, with_columns, env) ==
    IF w.exc # NoException \/ i > Len(tables_from_uri) THEN w
    ELSE IF ~InList(tables_from_uri[i][1], tables)
    THEN Raise(w, "ValueError: table not found in dataset")
    ELSE documented_loop(
             generate_one(w, tables_from_uri[i][1], tables_from_uri[i][2],
                          with_columns, env),
             tables_from_uri, i + 1, tables, with_columns, env)

\* the first loop of the DOCUMENTED_THEN_REST strategy: "if table not in tables"
RECURSIVE documented_then_rest_loop(_, _, _, _, _, _)
documented_then_rest_loop(w, tables_from_uri, i, tables, with_columns, env) ==
    IF w.exc # NoException \/ i > Len(tables_from_uri) THEN w
    ELSE IF ~PairInNames(tables_from_uri[i], tables)
    THEN Raise(w, "ValueError: table not found in dataset")
    ELSE documented_then_rest_loop(
             generate_one(w, tables_from_uri[i][1], tables_from_uri[i][2],
                          with_columns, env),
             tables_from_uri, i + 1, tables, with_columns, env)

\* the second loop of the DOCUMENTED_THEN_REST strategy
RECURSIVE rest_loop(_, _, _, _, _, _)
rest_loop(w, tables, i, tables_from_uri_first_elements, with_columns, env) ==
    IF w.exc # NoException \/ i > Len(tables) THEN w
    ELSE IF InList(tables[i], tables_from_uri_first_elements)
    THEN rest_loop(w, tables, i + 1, tables_from_uri_first_elements, with_columns, env)
    ELSE rest_loop(generate_one(w, tables[i], NoDocument, with_columns, env),
                   tables, i + 1, tables_from_uri_first_elements, with_columns, env)

\* the loop of the NAIVE, RANDOM and ALPHABETICAL strategies
RECURSIVE sorted_loop(_, _, _, _, _)
sorted_loop(w, tables_sorted, i, with_columns, env) ==
    IF w.exc # NoException \/ i > Len(tables_sorted) THEN w
    ELSE sorted_loop(generate_one(w, tables_sorted[i], NoDocument, with_columns, env),
                     tables_sorted, i + 1, with_columns, env)

\* the list of the first elements of the mapping (line 296)
first_elements(tables_from_uri) ==
    [k \in DOMAIN tables_from_uri |-> tables_from_uri[k][1]]

\* the strategy once the tables are listed
run_strategy(w, tables, int_strategy, documentation_csv_uri, with_columns, env) ==
    IF int_strategy = GENERATION_STRATEGY.DOCUMENTED
    THEN LET w1 == get_tables_from_uri(w, documentation_csv_uri, env)
         IN  documented_loop(w1, w1.ret, 1, tables, with_columns, env)
    ELSE IF int_strategy = GENERATION_STRATEGY.DOCUMENTED_THEN_REST
    THEN LET w1 == get_tables_from_uri(w, documentation_csv_uri, env)
         IN  IF w1.exc # NoException THEN w1
             ELSE rest_loop(
                      documented_then_rest_loop(w1, w1.ret, 1, tables, with_columns, env),
                      tables, 1, first_elements(w1.ret), with_columns, env)
    ELSE sorted_loop(w, order_tables_to_strategy(tables, int_strategy, env.shuffle), 1,
                     with_columns, env)

\* Variant: the name of the strategy is not checked, and an unknown name is
\* run as NAIVE (C14 tells the two apart).
generate_dataset_unchecked(w, dataset_fqn, strategy, documentation_csv_uri, with_columns, env) ==
    LET int_strategy == IF strategy \in DOMAIN GENERATION_STRATEGY
                        THEN GENERATION_STRATEGY[strategy]
                        ELSE GENERATION_STRATEGY.NAIVE
        w0 == [w EXCEPT !.strategy = strategy,
                        !.documentation_csv_uri = documentation_csv_uri]
    IN  IF /\ int_strategy = GENERATION_STRATEGY.DOCUMENTED
           /\ documentation_csv_uri = NoCsv
        THEN Raise(w0, "ValueError: documentation URI required")
        ELSE LET w1 == list_tables_in_dataset(w0, dataset_fqn, env)
             IN  run_strategy(w1, w1.ret, int_strategy, documentation_csv_uri,
                              with_columns, env)

\* Variant: a batch that fails gives the warehouse and the catalog back as it
\* found them (C24 tells the two apart).
generate_dataset_rolled_back(w, dataset_fqn, strategy, documentation_csv_uri, with_columns, env) ==
    LET w0 == [w EXCEPT !.strategy = strategy,
                        !.documentation_csv_uri = documentation_csv_uri]
        w1 == list_tables_in_dataset(w0, dataset_fqn, env)
        w2 == IF strategy \notin DOMAIN GENERATION_STRATEGY
              THEN Raise(w0, "ValueError: invalid strategy")
              ELSE IF /\ strategy = "DOCUMENTED"
                      /\ documentation_csv_uri = NoCsv
              THEN Raise(w0, "ValueError: documentation URI required")
              ELSE run_strategy(w1, w1.ret, GENERATION_STRATEGY[strategy],
                                documentation_csv_uri, with_columns, env)
    IN  IF w2.exc # NoException THEN [w2 EXCEPT !.bq = w.bq, !.cat = w.cat] ELSE w2

\* the body of the two batch methods; "except Exception as e: raise e"
\* passes every exception on as it is.  w.strategy and
\* w.documentation_csv_uri keep the arguments of the call.
generate_dataset(w, dataset_fqn, strategy, documentation_csv_uri, with_columns, env) ==
    LET w0 == [w EXCEPT !.strategy = strategy,
                        !.documentation_csv_uri = documentation_csv_uri]
    IN  IF strategy \notin DOMAIN GENERATION_STRATEGY
        THEN Raise(w0, "ValueError: invalid strategy")
        ELSE LET int_strategy == GENERATION_STRATEGY[strategy]
             IN  IF /\ int_strategy = GENERATION_STRATEGY.DOCUMENTED
                    /\ documentation_csv_uri = NoCsv
                 THEN Raise(w0, "ValueError: documentation URI required")
                 ELSE LET w1 == list_tables_in_dataset(w0, dataset_fqn, env)
                      IN  run_strategy(w1, w1.ret, int_strategy, documentation_csv_uri,
                                       with_columns, env)

generate_dataset_tables_descriptions(w, dataset_fqn, strategy, documentation_csv_uri, env) ==
    generate_dataset(w, dataset_fqn, strategy, documentation_csv_uri, FALSE, env)

generate_dataset_tables_columns_descriptions(w, dataset_fqn, strategy, documentation_csv_uri, env) ==
    generate_dataset(w, dataset_fqn, strategy, documentation_csv_uri, TRUE, env)

\* the batch runs of one behaviour
MaxBatches == 1

\* the orders in which the warehouse may list the tables of the dataset
Listings == Orderings(DatasetTables)

\* the permutations random.shuffle may pick
Shuffles == Orderings(1..Cardinality(DatasetTables))

\* the files the mapping may be read from: empty; two tables of the dataset,
\* with an empty line; a table that the dataset does not have after one it has
Csvs ==
    {<<>>,
     << <<"p.d.b", "gs://bucket/b.pdf">>, BlankLine, <<"p.d.a", "gs://bucket/a.pdf">> >>,
     << <<"p.d.a", "gs://bucket/a.pdf">>, <<"p.d.zz", "gs://bucket/zz.pdf">> >>}

BatchOptions == {[DefaultOptions EXCEPT !.stage_for_review = s] : s \in BOOLEAN}

BatchInit ==
    /\ client_options \in BatchOptions
    /\ configured = client_options
    /\ bq = [t \in DatasetTables |->
                [description |-> <<"old">>, schema |-> InitialSchema(t)]]
    /\ catalog = [t \in DatasetTables |-> Restrict(ReviewedEntry, {})]
    /\ aspect_types = {}
    /\ last = Idle
    /\ calls = 0

\* the inputs of a batch run and what the collaborators do during it
BatchEnvs(fails_in) ==
    {BatchEnv(<<"X">>, fails_at, fails_in, "none", 1, listing, csv, shuffle) :
        fails_at \in {0, 2}, listing \in Listings, csv \in Csvs, shuffle \in Shuffles}

GenerateDatasetTablesDescriptions ==
    \E strategy \in StrategyArgs, documentation_csv_uri \in {NoCsv, CsvUri},
       env \in BatchEnvs("table") :
        /\ calls < MaxBatches
        /\ Finish("generate_dataset_tables_descriptions", Dataset, "",
                  generate_dataset_tables_descriptions(
                      World, Dataset, strategy, documentation_csv_uri, env))

GenerateDatasetTablesColumnsDescriptions ==
    \E strategy \in StrategyArgs, documentation_csv_uri \in {NoCsv, CsvUri},
       env \in BatchEnvs("columns") :
        /\ calls < MaxBatches
        /\ Finish("generate_dataset_tables_columns_descriptions", Dataset, "",
                  generate_dataset_tables_columns_descriptions(
                      World, Dataset, strategy, documentation_csv_uri, env))

BatchNext ==
    \/ CallReturns
    \/ GenerateDatasetTablesDescriptions
    \/ GenerateDatasetTablesColumnsDescriptions

BatchSpec == BatchInit /\ [][BatchNext]_vars

----------------------------------------------------------------------------
(* _llm_inference on its own: every number of failed attempts, with and
   without a document *)

Documents == {NoDocument, "gs://bucket/a.pdf"}

InferenceOptions ==
    {[DefaultOptions EXCEPT !.use_ext_documents = d, !.add_ai_warning = a] :
        d \in BOOLEAN, a \in BOOLEAN}

InferenceInit ==
    /\ client_options \in InferenceOptions
    /\ configured = client_options
    /\ bq = [t \in Tables |-> [description |-> <<"old">>, schema |-> InitialSchema(t)]]
    /\ catalog = [t \in Tables |-> Restrict(ReviewedEntry, {})]
    /\ aspect_types = {}
    /\ last = Idle
    /\ calls = 0

\* the observation's generated holds the text the call returned
LlmInference ==
    \E outcome \in LlmOutcomes, documentation_uri \in Documents,
       prompt \in {get_prompt_table(client_options), get_prompt_columns(client_options)} :
        LET w == llm_inference(World, prompt, documentation_uri, outcome)
        IN  Finish("llm_inference", "", "",
                   IF w.exc = NoException THEN [w EXCEPT !.generated = <<w.ret>>] ELSE w)

InferenceNext ==
    \/ CallReturns
    \/ LlmInference

InferenceSpec == InferenceInit /\ [][InferenceNext]_vars

----------------------------------------------------------------------------
(* Generation with the optional signals: every combination of the four
   signal flags, tables with and without lineage and scan results, a lineage
   service that may reject the search *)

SignalOptions ==
    {[DefaultOptions EXCEPT !.use_lineage_tables = lt,
                            !.use_lineage_processes = lp,
                            !.use_profile = pr,
                            !.use_data_quality = dq,
                            !.persist_to_dataplex_catalog = FALSE] :
        lt \in BOOLEAN, lp \in BOOLEAN, pr \in BOOLEAN, dq \in BOOLEAN}

SignalInit ==
    /\ client_options \in SignalOptions
    /\ configured = client_options
    /\ bq = [t \in DatasetTables |->
                [description |-> <<"old">>, schema |-> InitialSchema(t)]]
    /\ catalog = [t \in DatasetTables |-> Restrict(ReviewedEntry, {})]
    /\ aspect_types = {}
    /\ last = Idle
    /\ calls = 0

SignalGenerateTableDescription ==
    \E table_fqn \in DatasetTables \cup {MissingTable}, fault \in {"none", "lineage"},
       outcome \in {[fails |-> 0, text |-> <<"X">>], InferenceFails} :
        Finish("generate_table_description", table_fqn, "",
               generate_table_description(
                   World, table_fqn, NoDocument, NoComments,
                   Env(<<outcome>>, fault, <<>>, 1)))

SignalGenerateColumnsDescriptions ==
    \E table_fqn \in DatasetTables \cup {MissingTable}, fails_at \in {0, 1},
       fault \in {"none", "lineage"} :
        Finish("generate_columns_descriptions", table_fqn, "",
               generate_columns_descriptions(
                   World, table_fqn, NoDocument, NoComments,
                   Env(ColumnOutcomes(<<"X">>, fails_at), fault, <<>>, 1)))

SignalNext ==
    \/ CallReturns
    \/ SignalGenerateTableDescription
    \/ SignalGenerateColumnsDescriptions

SignalSpec == SignalInit /\ [][SignalNext]_vars

----------------------------------------------------------------------------
(* PromptManager on its own: every combination of the eight flags, both
   kinds of prompt.  The observation's prompt holds the prompt returned. *)

PromptOptions ==
    [use_lineage_tables : BOOLEAN,
     use_lineage_processes : BOOLEAN,
     use_profile : BOOLEAN,
     use_data_quality : BOOLEAN,
     use_ext_documents : BOOLEAN,
     persist_to_dataplex_catalog : BOOLEAN,
     stage_for_review : BOOLEAN,
     add_ai_warning : BOOLEAN]

PROMPT_TYPE_TABLE == 0
PROMPT_TYPE_COLUMN == 1

get_promtp(prompt_type, opts) ==
    IF prompt_type = PROMPT_TYPE_TABLE THEN get_prompt_table(opts)
    ELSE get_prompt_columns(opts)

PromptInit ==
    /\ client_options \in PromptOptions
    /\ configured = client_options
    /\ bq = [t \in Tables |-> [description |-> <<"old">>, schema |-> InitialSchema(t)]]
    /\ catalog = [t \in Tables |-> Restrict(ReviewedEntry, {})]
    /\ aspect_types = {}
    /\ last = Idle
    /\ calls = 0

GetPrompt ==
    \E prompt_type \in {PROMPT_TYPE_TABLE, PROMPT_TYPE_COLUMN} :
        Finish(IF prompt_type = PROMPT_TYPE_TABLE
               THEN "get_prompt_table" ELSE "get_prompt_columns",
               "", "",
               [World EXCEPT !.prompt = get_promtp(prompt_type, client_options)])

PromptNext ==
    \/ CallReturns
    \/ GetPrompt

PromptSpec == PromptInit /\ [][PromptNext]_vars

----------------------------------------------------------------------------
(* Properties.  `last` is the observation of the call that has just ended;
   the other variables hold the state the call left behind.  A property that
   compares that state with the state the call found is a property of steps. *)

Logged(obs, call) == \E i \in DOMAIN obs.log : obs.log[i] = call
Requested(obs, key) == \E i \in DOMAIN obs.update_keys : obs.update_keys[i] = key
Returned(obs) == obs.exc = NoException
Stored(obs) == \A i \in DOMAIN obs.stored : obs.stored[i]

\* the aspects of the catalog other than the one at key of table_fqn are the
\* same before and after the step
OtherAspectsUnchanged(table_fqn, key) ==
    \A t \in DOMAIN catalog :
        /\ DOMAIN catalog'[t] \ {key} = DOMAIN catalog[t] \ {key}
        /\ t # table_fqn => catalog'[t] = catalog[t]
        /\ \A k \in DOMAIN catalog[t] \ {key} : catalog'[t][k] = catalog[t][k]

\* C1: when stage_for_review is false, generate_table_description checks and
\* creates no aspect type and requests no write of the draft aspect; when it
\* returns, the warehouse description of the table is the generated
\* description, and the overview aspect was written if and only if
\* persist_to_dataplex_catalog is set (and then holds the description, unless
\* the catalog refused the write).
C1_PublishedWhenNotStaged ==
    (last.op = "generate_table_description" /\ ~client_options.stage_for_review) =>
        /\ ~Logged(last, "catalog.get_aspect_type")
        /\ ~Logged(last, "catalog.create_aspect_type")
        /\ ~Requested(last, TableDraftKey)
        /\ Returned(last) =>
            /\ Logged(last, "bq.update_table(description)")
            /\ bq[last.table].description = last.descriptions[1]
            /\ IF client_options.persist_to_dataplex_catalog
               THEN /\ last.update_keys = <<OverviewKey>>
                    /\ Stored(last) =>
                         catalog[last.table][OverviewKey].data.content
                             = last.descriptions[1]
               ELSE last.update_keys = <<>>

C1_Witness ==
    /\ last.op = "generate_table_description"
    /\ ~client_options.stage_for_review
    /\ client_options.persist_to_dataplex_catalog
    /\ Returned(last)
    /\ last.stored = <<TRUE>>
    /\ bq[last.table].description = AI_WARNING \o <<"X">>
    /\ catalog[last.table][OverviewKey].data.content = AI_WARNING \o <<"X">>

\* C2: when stage_for_review is true, a call of generate_table_description
\* leaves the warehouse and every aspect other than the table's draft aspect
\* as they were (whatever persist_to_dataplex_catalog says) and requests no
\* write but that of the table's draft aspect; when the write is carried out
\* the draft aspect at path "" holds the generated description.
C2_StagedOnlyInDraft ==
    [][(last'.op = "generate_table_description" /\ client_options.stage_for_review) =>
        /\ bq' = bq
        /\ ~Logged(last', "bq.update_table(description)")
        /\ OtherAspectsUnchanged(last'.table, TableDraftKey)
        /\ ~Requested(last', OverviewKey)
        /\ Returned(last') =>
            /\ last'.update_keys = <<TableDraftKey>>
            /\ Stored(last') =>
                 /\ catalog'[last'.table][TableDraftKey].path = <<>>
                 /\ catalog'[last'.table][TableDraftKey].aspect_type = StagingAspectType
                 /\ catalog'[last'.table][TableDraftKey].data.contents
                       = last'.descriptions[1]]_vars

C2_Witness ==
    /\ last.op = "generate_table_description"
    /\ client_options.stage_for_review
    /\ client_options.persist_to_dataplex_catalog
    /\ Returned(last)
    /\ last.stored = <<TRUE>>
    /\ bq[last.table].description = <<"old">>
    /\ OverviewKey \notin DOMAIN catalog[last.table]
    /\ catalog[last.table][TableDraftKey].data.contents = AI_WARNING \o <<"X">>

\* C3: when accept_table_draft_description returns for a table whose draft
\* aspect at table scope has contents X, and no collaborator refused a write,
\* the warehouse description of the table and the content of the overview
\* aspect are both X.
C3_AcceptRoundTrip ==
    (/\ last.op = "accept_table_draft_description"
     /\ Returned(last) /\ Stored(last)
     /\ TableDraftKey \in DOMAIN catalog[last.table]) =>
        LET X == catalog[last.table][TableDraftKey].data.contents
        IN  /\ bq[last.table].description = X
            /\ catalog[last.table][OverviewKey].data.content = X

\* the calls that generate a table description and route it
TableGenerations == {"generate_table_description", "regenerate_table_description"}

\* the staging aspects of table_fqn at the given path, after the step
DraftsAt(table_fqn, path) ==
    {k \in DOMAIN catalog'[table_fqn] :
        /\ catalog'[table_fqn][k].aspect_type = StagingAspectType
        /\ catalog'[table_fqn][k].path = path}

\* a staged write of the draft aspect at key was carried out by the step
StagedWrite(ops, key) ==
    /\ last'.op \in ops
    /\ client_options.stage_for_review \/ last'.op = "update_column_draft_description"
    /\ Returned(last')
    /\ last'.update_keys = <<key>>
    /\ last'.stored = <<TRUE>>

\* C4: after a staged generation there is exactly one draft aspect at the
\* key (table scope: path ""; column scope: path Schema.<column>), and when
\* the generation found a draft aspect at the key, the human_comments and the
\* negative_examples of the record are those it had before the write.
C4_OneDraftMerged ==
    [][/\ StagedWrite(TableGenerations, TableDraftKey) =>
            /\ DraftsAt(last'.table, <<>>) = {TableDraftKey}
            /\ TableDraftKey \in DOMAIN catalog[last'.table] =>
                 LET old == catalog[last'.table][TableDraftKey].data
                     new == catalog'[last'.table][TableDraftKey].data
                 IN  /\ new.human_comments = old.human_comments
                     /\ new.negative_examples = old.negative_examples
       /\ StagedWrite({"update_column_draft_description"}, ColumnDraftKey(last'.column)) =>
            LET key == ColumnDraftKey(last'.column)
            IN  /\ DraftsAt(last'.table, <<"Schema", last'.column>>) = {key}
                /\ key \in DOMAIN catalog[last'.table] =>
                     LET old == catalog[last'.table][key].data
                         new == catalog'[last'.table][key].data
                     IN  /\ new.human_comments = old.human_comments
                         /\ new.negative_examples = old.negative_examples]_vars

\* a second staged generation has merged into the draft the first one created
\* from a reviewed record
C4_Witness ==
    /\ calls = 2
    /\ last.op = "generate_table_description"
    /\ client_options.stage_for_review
    /\ Returned(last)
    /\ last.stored = <<TRUE>>
    /\ last.clock # <<>>
    /\ catalog[last.table][TableDraftKey].data.human_comments = <<"table comment">>
    /\ catalog[last.table][TableDraftKey].data.negative_examples = <<"too vague">>
    /\ catalog[last.table][TableDraftKey].data.contents = <<"Y", "Y", "Y">>

\* C5: a staged generation that finds a draft aspect at the key sets its
\* contents to the description just generated, its generation_date to the
\* instant read during the call, and its to_be_regenerated to "false",
\* whatever to_be_regenerated was before.
C5_MergeRefreshes ==
    [][/\ (/\ StagedWrite(TableGenerations, TableDraftKey)
           /\ TableDraftKey \in DOMAIN catalog[last'.table]) =>
            LET new == catalog'[last'.table][TableDraftKey].data
            IN  /\ new.contents = last'.descriptions[1]
                /\ last'.clock # <<>>
                /\ new.generation_date = last'.clock[1]
                /\ new.generation_date # FixedGenerationDate
                /\ new.to_be_regenerated = "false"
       /\ (/\ StagedWrite({"update_column_draft_description"},
                           ColumnDraftKey(last'.column))
           /\ ColumnDraftKey(last'.column) \in DOMAIN catalog[last'.table]) =>
            LET new == catalog'[last'.table][ColumnDraftKey(last'.column)].data
            IN  /\ new.contents = last'.descriptions[1]
                /\ last'.clock # <<>>
                /\ new.generation_date = last'.clock[1]
                /\ new.generation_date # FixedGenerationDate
                /\ new.to_be_regenerated = "false"]_vars

\* the first call found the reviewed draft, flagged for regeneration
C5_Witness ==
    /\ calls = 1
    /\ last.op = "regenerate_table_description"
    /\ client_options.stage_for_review
    /\ Returned(last)
    /\ last.stored = <<TRUE>>
    /\ last.clock = <<1>>
    /\ catalog[last.table][TableDraftKey].data.human_comments = <<"table comment">>
    /\ catalog[last.table][TableDraftKey].data.to_be_regenerated = "false"
    /\ catalog[last.table][TableDraftKey].data.generation_date = 1

\* the options of the first staged generation of C6
StagedDefaults == [DefaultOptions EXCEPT !.stage_for_review = TRUE]

\* a call of generate_table_description with the options of C6 has created
\* the draft aspect of a table that had none
FirstStagedGeneration ==
    /\ last'.op = "generate_table_description"
    /\ client_options = StagedDefaults
    /\ last'.table \in DOMAIN catalog
    /\ TableDraftKey \notin DOMAIN catalog[last'.table]
    /\ Returned(last')
    /\ last'.stored = <<TRUE>>

\* C6 as stated: with stage_for_review set and the other flags at their
\* defaults, the first staged generation for a table with no draft creates a
\* draft aspect at path "" whose contents are the model output, with
\* to_be_regenerated "false" and empty human_comments and negative_examples.
C6_AsStated ==
    [][FirstStagedGeneration =>
        LET draft == catalog'[last'.table][TableDraftKey]
        IN  /\ draft.path = <<>>
            /\ draft.data.contents = last'.generated[1]
            /\ draft.data.to_be_regenerated = "false"
            /\ draft.data.human_comments = <<>>
            /\ draft.data.negative_examples = <<>>]_vars

\* C6, amended: with stage_for_review set and the other flags at their
\* defaults (add_ai_warning is set by default), the first staged generation for
\* a table with no draft creates a draft aspect at path "" whose contents are
\* the AI warning followed by the model output, with to_be_regenerated
\* "false" and empty human_comments and negative_examples.
C6_FirstDraft ==
    [][FirstStagedGeneration =>
        LET draft == catalog'[last'.table][TableDraftKey]
        IN  /\ draft.path = <<>>
            /\ draft.aspect_type = StagingAspectType
            /\ draft.data.contents = AI_WARNING \o last'.generated[1]
            /\ draft.data.to_be_regenerated = "false"
            /\ draft.data.human_comments = <<>>
            /\ draft.data.negative_examples = <<>>]_vars

C6_Witness ==
    /\ calls = 1
    /\ last.op = "generate_table_description"
    /\ client_options = StagedDefaults
    /\ Returned(last)
    /\ last.stored = <<TRUE>>
    /\ last.clock = <<>>
    /\ last.generated = << <<"X">> >>
    /\ catalog[last.table][TableDraftKey].data.contents = AI_WARNING \o <<"X">>
    /\ catalog[last.table][TableDraftKey].data.human_comments = <<>>

\* C7: when generate_columns_descriptions returns with stage_for_review set,
\* it has requested the write of the draft aspect of every column of the
\* table and no write of the warehouse schema; with stage_for_review unset it
\* has written the descriptions to the warehouse schema.
C7_ColumnsStaged ==
    (last.op = "generate_columns_descriptions" /\ Returned(last)) =>
        IF client_options.stage_for_review
        THEN /\ ~Logged(last, "bq.update_table(schema)")
             /\ \A i \in DOMAIN bq[last.table].schema :
                    Requested(last, ColumnDraftKey(bq[last.table].schema[i].name))
        ELSE /\ Logged(last, "bq.update_table(schema)")
             /\ \A i \in DOMAIN bq[last.table].schema :
                    bq[last.table].schema[i].description
                        = SubSeq(last.descriptions[i], 1,
                                 Min(MAX_COLUMN_DESC_LENGTH, Len(last.descriptions[i])))

\* the human_comments of the table's draft aspect before the step
TableDraftComments(table_fqn) ==
    IF TableDraftKey \in DOMAIN catalog[table_fqn]
    THEN catalog[table_fqn][TableDraftKey].data.human_comments
    ELSE <<>>

\* C8: regenerate_table_description passes to generate_table_description the
\* human_comments of the draft aspect at table scope and nothing else (not the
\* comments of a column's draft), and the new description is routed as a
\* fresh generation is: to the table's draft aspect only when
\* stage_for_review is set, otherwise to the warehouse description, and to the
\* overview aspect if persist_to_dataplex_catalog is set.
C8_RegenerateWithTableComments ==
    [][(last'.op = "regenerate_table_description" /\ last'.table \in DOMAIN catalog) =>
        /\ last'.human_comments = CommentList(TableDraftComments(last'.table))
        /\ IF client_options.stage_for_review
           THEN /\ bq' = bq
                /\ OtherAspectsUnchanged(last'.table, TableDraftKey)
                /\ ~Requested(last', OverviewKey)
                /\ Returned(last') =>
                     /\ last'.update_keys = <<TableDraftKey>>
                     /\ Stored(last') =>
                          catalog'[last'.table][TableDraftKey].data.contents
                              = last'.descriptions[1]
           ELSE /\ ~Requested(last', TableDraftKey)
                /\ ~Logged(last', "catalog.get_aspect_type")
                /\ Returned(last') =>
                     /\ bq'[last'.table].description = last'.descriptions[1]
                     /\ IF client_options.persist_to_dataplex_catalog
                        THEN /\ last'.update_keys = <<OverviewKey>>
                             /\ Stored(last') =>
                                  catalog'[last'.table][OverviewKey].data.content
                                      = last'.descriptions[1]
                        ELSE last'.update_keys = <<>>]_vars

\* the table has a commented draft and a commented column draft, and the
\* regeneration was given the table's comment
C8_Witness ==
    /\ last.op = "regenerate_table_description"
    /\ Returned(last)
    /\ ~client_options.stage_for_review
    /\ last.human_comments = CommentList(<<"table comment">>)
    /\ ColumnDraftKey("c1") \in DOMAIN catalog[last.table]
    /\ catalog[last.table][ColumnDraftKey("c1")].data.human_comments
           = <<"column comment">>
    /\ bq[last.table].description = last.descriptions[1]

\* the step is a call that accepts a draft the catalog does not hold
AcceptWithoutDraft ==
    /\ last'.table \in DOMAIN catalog
    /\ \/ /\ last'.op = "accept_table_draft_description"
          /\ TableDraftKey \notin DOMAIN catalog[last'.table]
       \/ /\ last'.op = "accept_column_draft_description"
          /\ ColumnDraftKey(last'.column) \notin DOMAIN catalog[last'.table]

\* C9: accept_table_draft_description and accept_column_draft_description,
\* called when the catalog holds no draft aspect for the table or the column,
\* end in an error and request no write of the warehouse description, of the
\* warehouse schema or of the overview aspect.
C9_AcceptWithoutDraftFails ==
    [][AcceptWithoutDraft =>
        /\ ~Returned(last')
        /\ ~Logged(last', "bq.update_table(description)")
        /\ ~Logged(last', "bq.update_table(schema)")
        /\ ~Requested(last', OverviewKey)
        /\ bq' = bq
        /\ catalog' = catalog]_vars

\* C10: regenerate_table_description, called for a table that has no draft
\* aspect at table scope, ends in an error without calling the model and
\* without writing a description or a draft.
C10_RegenerateWithoutDraftFails ==
    [][(/\ last'.op = "regenerate_table_description"
        /\ last'.table \in DOMAIN catalog
        /\ TableDraftKey \notin DOMAIN catalog[last'.table]) =>
        /\ ~Returned(last')
        /\ ~Logged(last', "llm.generate_content")
        /\ last'.generated = <<>>
        /\ last'.update_keys = <<>>
        /\ bq' = bq
        /\ catalog' = catalog]_vars

\* the positions of the column in the schema of the table before the step
ColumnPositions(table_fqn, column_name) ==
    {i \in DOMAIN bq[table_fqn].schema : bq[table_fqn].schema[i].name = column_name}

\* the step is a call of accept_column_draft_description that returned, for
\* a column of the table that has a draft aspect
ColumnDraftAccepted ==
    /\ last'.op = "accept_column_draft_description"
    /\ Returned(last')
    /\ last'.table \in DOMAIN catalog
    /\ ColumnDraftKey(last'.column) \in DOMAIN catalog[last'.table]
    /\ ColumnPositions(last'.table, last'.column) # {}

\* the step leaves the table's description, the number of columns and every
\* column other than the accepted one as they were
ColumnFrame ==
    /\ bq'[last'.table].description = bq[last'.table].description
    /\ \A t \in DOMAIN bq \ {last'.table} : bq'[t] = bq[t]
    /\ DOMAIN bq'[last'.table].schema = DOMAIN bq[last'.table].schema
    /\ \A i \in DOMAIN bq[last'.table].schema \ ColumnPositions(last'.table, last'.column) :
          bq'[last'.table].schema[i] = bq[last'.table].schema[i]

RECURSIVE SumSeq(_)
SumSeq(q) == IF q = <<>> THEN 0 ELSE Head(q) + SumSeq(Tail(q))

\* the waits of C12, in seconds
Backoff == <<1, 2, 4>>

\* C12: a call of _llm_inference invokes the model at most 4 times; the wait
\* after the failed attempt i = 0, 1, 2 is 1, 2, 4 seconds; when all 4 attempts
\* fail the call raises the error of the last attempt with no further wait,
\* having waited 1 + 2 + 4 = 7 seconds.  (The call is one bounded loop: it
\* ends after at most 4 attempts.)
C12_AttemptsAndBackoff ==
    last.op = "llm_inference" =>
        /\ Len(last.attempts) \in 1..4
        /\ Len(last.log) = Len(last.attempts)
        /\ Len(last.sleeps) = Len(last.attempts) - 1
        /\ \A i \in DOMAIN last.sleeps :
              ~last.attempts[i].ok /\ last.sleeps[i] = Backoff[i]
        /\ (\A i \in DOMAIN last.attempts : ~last.attempts[i].ok) =>
              /\ Len(last.attempts) = 4
              /\ last.exc = last.attempts[4].error
              /\ last.exc # last.attempts[3].error
              /\ last.sleeps = Backoff
              /\ SumSeq(last.sleeps) = 7

C12_Witness ==
    /\ last.op = "llm_inference"
    /\ ~Returned(last)
    /\ Len(last.attempts) = 4
    /\ last.sleeps = <<1, 2, 4>>
    /\ last.exc = "InferenceError at attempt 3"

\* C13: when the model call fails k <= 3 times and then succeeds,
\* _llm_inference raises nothing and returns the text of the successful
\* attempt as it is; the success is the last invocation and no wait follows it.
C13_ReturnsFirstSuccess ==
    last.op = "llm_inference" =>
        \A i \in DOMAIN last.attempts :
            last.attempts[i].ok =>
                /\ i - 1 <= 3
                /\ \A j \in 1..(i - 1) : ~last.attempts[j].ok
                /\ Returned(last)
                /\ last.generated = <<last.attempts[i].text>>
                /\ Len(last.attempts) = i
                /\ Len(last.log) = i
                /\ Len(last.sleeps) = i - 1

C13_Witness ==
    /\ last.op = "llm_inference"
    /\ Returned(last)
    /\ Len(last.attempts) = 3
    /\ ~last.attempts[2].ok
    /\ last.sleeps = <<1, 2>>
    /\ last.generated = << <<"Y", "Y", "Y">> >>

\* the two batch methods
BatchOps ==
    {"generate_dataset_tables_descriptions",
     "generate_dataset_tables_columns_descriptions"}

\* the strategies of the spec
RecognizedStrategies ==
    {"NAIVE", "RANDOM", "ALPHABETICAL", "DOCUMENTED", "DOCUMENTED_THEN_REST"}

\* the tables for which generate_table_description was called, in order
ProcessedTables(obs) == [i \in DOMAIN obs.processed |-> obs.processed[i].table]

\* the step called no generation, invoked no model and wrote nothing
NothingGenerated ==
    /\ last'.processed = <<>>
    /\ last'.attempts = <<>>
    /\ last'.generated = <<>>
    /\ last'.update_keys = <<>>
    /\ ~Logged(last', "bq.update_table(description)")
    /\ ~Logged(last', "bq.update_table(schema)")
    /\ bq' = bq
    /\ catalog' = catalog
    /\ aspect_types' = aspect_types

\* C14: a batch run with a strategy name that is not recognized fails with
\* the invalid-strategy error before the tables of the dataset are listed,
\* before any model invocation and before any write.
C14_InvalidStrategy ==
    [][(last'.op \in BatchOps /\ last'.strategy \notin RecognizedStrategies) =>
        /\ last'.exc = "ValueError: invalid strategy"
        /\ last'.listed = <<>>
        /\ last'.log = <<>>
        /\ NothingGenerated]_vars

C14_Witness ==
    /\ last.op = "generate_dataset_tables_columns_descriptions"
    /\ last.strategy = "BEST_EFFORT"
    /\ last.documentation_csv_uri = CsvUri
    /\ last.exc = "ValueError: invalid strategy"
    /\ last.log = <<>>

\* C15: for DOCUMENTED and for DOCUMENTED_THEN_REST, a batch run without a
\* mapping source (documentation_csv_uri is None) fails with the error for a
\* missing documentation source, and no table is generated or written.
C15_MissingDocumentationSource ==
    [][(/\ last'.op \in BatchOps
        /\ last'.strategy \in {"DOCUMENTED", "DOCUMENTED_THEN_REST"}
        /\ last'.documentation_csv_uri = NoCsv) =>
        /\ last'.exc = "ValueError: documentation URI required"
        /\ NothingGenerated]_vars

\* the call read the mapping
\* the tables named in the mapping the call read
MappedTables(obs) == [k \in DOMAIN obs.tables_from_uri |-> obs.tables_from_uri[k][1]]

\* every table of the mapping is in the list of the dataset's tables
MappingInDataset(obs) ==
    /\ obs.listed # <<>>
    /\ \A k \in DOMAIN obs.tables_from_uri :
          InList(obs.tables_from_uri[k][1], obs.listed[1])

\* C16: in a DOCUMENTED or DOCUMENTED_THEN_REST batch whose mapping names a
\* table that the dataset does not list, the run fails and no generation is
\* begun: no model invocation and no write for any table, the tables that
\* precede the unknown one in the mapping included.
C16_UnknownTableAbortsBatch ==
    [][(/\ last'.op \in BatchOps
        /\ last'.strategy \in {"DOCUMENTED", "DOCUMENTED_THEN_REST"}
        /\ Logged(last', "storage.download_as_text")
        /\ ~MappingInDataset(last')) =>
        /\ ~Returned(last')
        /\ NothingGenerated]_vars

\* the calls of generate_table_description that the mapping asks for
MappedCalls(obs) ==
    [k \in DOMAIN obs.tables_from_uri |->
        [table |-> obs.tables_from_uri[k][1],
         documentation_uri |-> obs.tables_from_uri[k][2]]]

IsPrefix(p, q) == Len(p) <= Len(q) /\ p = SubSeq(q, 1, Len(p))

\* C17: with strategy DOCUMENTED and a mapping whose tables are all in the
\* dataset, the batch generates the tables of the mapping, in the order of
\* the mapping, each with the document the mapping gives it, and no other
\* table: all of them when the run returns, the first ones when it fails.
C17_DocumentedInMappingOrder ==
    (/\ last.op \in BatchOps
     /\ last.strategy = "DOCUMENTED"
     /\ Logged(last, "storage.download_as_text")
     /\ MappingInDataset(last)) =>
        /\ IsPrefix(last.processed, MappedCalls(last))
        /\ Returned(last) =>
            /\ last.processed = MappedCalls(last)
            /\ Len(last.generated) >= Len(last.processed)
            /\ Len(last.attempts) = Len(last.generated)

C17_Witness ==
    /\ last.op = "generate_dataset_tables_descriptions"
    /\ last.strategy = "DOCUMENTED"
    /\ Returned(last)
    /\ last.listed = << <<"p.d.c", "p.d.a", "p.d.b">> >>
    /\ last.processed =
          <<[table |-> "p.d.b", documentation_uri |-> "gs://bucket/b.pdf"],
            [table |-> "p.d.a", documentation_uri |-> "gs://bucket/a.pdf"]>>
    /\ bq["p.d.c"].description = <<"old">>
    /\ bq["p.d.b"].description = AI_WARNING \o <<"X">>

\* the tables of seq that are not in the list others, in the order of seq
RECURSIVE Without(_, _)
Without(seq, others) ==
    IF seq = <<>> THEN <<>>
    ELSE IF InList(Head(seq), others) THEN Without(Tail(seq), others)
    ELSE <<Head(seq)>> \o Without(Tail(seq), others)

\* C18: with strategy DOCUMENTED_THEN_REST and a non-empty mapping whose
\* tables are all in the dataset, a batch that meets no failure of a
\* collaborator returns and has generated first the tables of the mapping,
\* in its order and with their documents, then the other tables of the
\* dataset in the order of the listing, each table once.
C18_DocumentedThenRest ==
    (/\ last.op \in BatchOps
     /\ last.strategy = "DOCUMENTED_THEN_REST"
     /\ Logged(last, "storage.download_as_text")
     /\ last.tables_from_uri # <<>>
     /\ MappingInDataset(last)
     /\ \A i \in DOMAIN last.attempts : last.attempts[i].ok) =>
        /\ Returned(last)
        /\ last.processed =
              MappedCalls(last) \o
              [i \in DOMAIN Without(last.listed[1], MappedTables(last)) |->
                  [table |-> Without(last.listed[1], MappedTables(last))[i],
                   documentation_uri |-> NoDocument]]

\* the number of times x occurs in seq
Occurrences(x, seq) == Cardinality({i \in DOMAIN seq : seq[i] = x})

\* C19: for NAIVE, RANDOM and ALPHABETICAL, no table is generated twice and
\* none that the dataset does not list; when the batch returns, the tables
\* processed are a permutation of the list of the dataset's tables: every
\* listed table was generated once, without a document.
C19_SimpleStrategiesPermute ==
    (/\ last.op \in BatchOps
     /\ last.strategy \in {"NAIVE", "RANDOM", "ALPHABETICAL"}) =>
        /\ Len(last.listed) = 1
        /\ \A i \in DOMAIN last.processed :
              /\ InList(last.processed[i].table, last.listed[1])
              /\ Occurrences(last.processed[i].table, ProcessedTables(last)) = 1
              /\ last.processed[i].documentation_uri = NoDocument
        /\ Returned(last) =>
              /\ Len(last.processed) = Len(last.listed[1])
              /\ \A k \in DOMAIN last.listed[1] :
                    Occurrences(last.listed[1][k], ProcessedTables(last)) = 1

\* a shuffled run that is neither in the order of the listing nor sorted
C19_Witness ==
    /\ last.op = "generate_dataset_tables_descriptions"
    /\ last.strategy = "RANDOM"
    /\ Returned(last)
    /\ last.listed = << <<"p.d.c", "p.d.a", "p.d.b">> >>
    /\ ProcessedTables(last) = <<"p.d.b", "p.d.c", "p.d.a">>
    /\ \A t \in DatasetTables : bq[t].description = AI_WARNING \o <<"X">>

\* the names of the model's tables in ascending lexicographic order
Ascending == <<"p.d.a", "p.d.b", "p.d.c", "p.d.zz">>
Rank(name) == CHOOSE k \in DOMAIN Ascending : Ascending[k] = name

\* C20: ALPHABETICAL processes the tables in ascending lexicographic order
\* of their fully-qualified names, NAIVE in the order in which the dataset
\* lists them (all of them when the batch returns).
C20_AlphabeticalAndNaiveOrder ==
    /\ (last.op \in BatchOps /\ last.strategy = "ALPHABETICAL") =>
          /\ \A i, j \in DOMAIN last.processed :
                i < j => Rank(last.processed[i].table) < Rank(last.processed[j].table)
          /\ \A i \in DOMAIN last.processed, k \in DOMAIN last.listed[1] :
                Rank(last.listed[1][k]) < Rank(last.processed[i].table) =>
                    \E j \in 1..(i - 1) : last.processed[j].table = last.listed[1][k]
          /\ Returned(last) => Len(last.processed) = Len(last.listed[1])
    /\ (last.op \in BatchOps /\ last.strategy = "NAIVE") =>
          /\ IsPrefix(ProcessedTables(last), last.listed[1])
          /\ Returned(last) => ProcessedTables(last) = last.listed[1]

\* the example of the claim
C20_Witness ==
    /\ last.op = "generate_dataset_tables_descriptions"
    /\ last.strategy = "ALPHABETICAL"
    /\ Returned(last)
    /\ last.listed = << <<"p.d.c", "p.d.a", "p.d.b">> >>
    /\ ProcessedTables(last) = <<"p.d.a", "p.d.b", "p.d.c">>

----------------------------------------------------------------------------
(* Signals, prompts and batches *)

GenerationOps == {"generate_table_description", "generate_columns_descriptions"}

\* the call assembled a prompt: it went as far as the inference
Prompted(obs) == obs.op \in GenerationOps /\ obs.prompt # <<>>

\* the lineage service rejected the search for the source jobs
LineageRejected(obs) == Logged(obs, "logger.error(Cannot find lineage links)")

\* what a client constructed with the configured flags fetches for the table
\* when the table is the first it processes and no collaborator fails
WhenFirst(table_fqn) ==
    fetch_signals([World EXCEPT !.opts = configured], table_fqn,
                  Env(<<>>, "none", <<>>, 1))

PromptOf(op, opts) ==
    IF op = "generate_table_description" THEN get_prompt_table(opts)
    ELSE get_prompt_columns(opts)

\* C21: the signals fetched and the prompt used for a table do not depend on
\* the tables processed before it: whenever a generation call assembles a
\* prompt (no collaborator failing), the signals and the prompt are those of
\* a run in which the table is the first that the client processes.
C21_ContentIndependentOfOrder ==
    (Prompted(last) /\ ~LineageRejected(last)) =>
        /\ last.signals = WhenFirst(last.table).signals
        /\ last.prompt = PromptOf(last.op, WhenFirst(last.table).opts)

\* the step is a call of accept_column_draft_description in which
\* _update_column_bq_description replaced the schema of the table
ColumnDescriptionReplaced ==
    /\ last'.op = "accept_column_draft_description"
    /\ Returned(last')
    /\ Logged(last', "bq.update_table(schema)")

Truncated(text) == SubSeq(text, 1, Min(MAX_COLUMN_DESC_LENGTH, Len(text)))

\* C22: replacing the description of a column of a schema of N columns gives
\* a schema of N columns in the same order; every other column is identical
\* to what it was; the column keeps its name, type, mode, sub-fields and
\* policy tags, and its description is the new text cut to
\* MAX_COLUMN_DESC_LENGTH.
C22_ReplaceColumnDescription ==
    [][ColumnDescriptionReplaced =>
        LET old == bq[last'.table].schema
            new == bq'[last'.table].schema
        IN  /\ Len(new) = Len(old)
            /\ \A i \in DOMAIN old :
                  IF old[i].name # last'.column THEN new[i] = old[i]
                  ELSE /\ new[i].name = old[i].name
                       /\ new[i].field_type = old[i].field_type
                       /\ new[i].mode = old[i].mode
                       /\ new[i].fields = old[i].fields
                       /\ new[i].policy_tags = old[i].policy_tags
                       /\ new[i].description
                             = Truncated(last'.descriptions[Len(last'.descriptions)])]_vars

\* the description of column c1, a record with a sub-field, was replaced by
\* a text longer than the limit
C22_Witness ==
    /\ last.op = "accept_column_draft_description"
    /\ last.column = "c1"
    /\ Returned(last)
    /\ Logged(last, "bq.update_table(schema)")
    /\ Len(last.descriptions[1]) > MAX_COLUMN_DESC_LENGTH
    /\ bq[last.table].schema[1].description = Truncated(last.descriptions[1])
    /\ bq[last.table].schema[1].fields = <<"c1.sub">>
    /\ bq[last.table].schema[1].policy_tags = <<"pii">>
    /\ bq[last.table].schema[2] = SchemaField("c2", <<"d2">>)

\* every attempt of one inference failed
InferenceFailed(obs) ==
    \E i \in DOMAIN obs.attempts : obs.attempts[i].error = AttemptErrors[retries + 1]

\* C23: in a batch run an inference failure aborts only the table or column
\* it is for: the batch goes on to the remaining tables of its plan, so every
\* table the dataset lists (NAIVE, RANDOM, ALPHABETICAL) or the mapping names
\* (DOCUMENTED) is processed.
C23_InferenceFailureSkipsOneTable ==
    (last.op \in BatchOps /\ InferenceFailed(last)) =>
        /\ last.strategy \in {"NAIVE", "RANDOM", "ALPHABETICAL"} =>
              \A k \in DOMAIN last.listed[1] :
                  InList(last.listed[1][k], ProcessedTables(last))
        /\ (last.strategy = "DOCUMENTED" /\ MappingInDataset(last)) =>
              \A k \in DOMAIN last.tables_from_uri :
                  InList(last.tables_from_uri[k][1], ProcessedTables(last))

\* the positions, in the sequence of the tables processed, that precede the
\* table at which the batch stopped: all of them when the batch stopped at a
\* table of the mapping that the dataset does not list
BeforeFailure(obs) ==
    IF obs.exc = "ValueError: table not found in dataset"
    THEN DOMAIN obs.processed
    ELSE 1..(Len(obs.processed) - 1)

\* the world that processing the k-th table of the run leaves, every
\* collaborator succeeding, when the tables before it are left aside
ProcessedAlone(obs, k) ==
    generate_one([World EXCEPT !.processed = SubSeq(obs.processed, 1, k - 1)],
                 obs.processed[k].table, obs.processed[k].documentation_uri,
                 obs.op = "generate_dataset_tables_columns_descriptions",
                 BatchEnv(<<"X">>, 0, "table", "none", 1, <<>>, <<>>, <<>>))

\* C24: when a batch run stops with an error, every table processed before
\* the one at which it stopped has, in the warehouse and in the catalog, the
\* state its own processing gave it, and the tables that were not reached
\* are as the run found them.
C24_NoRollback ==
    [][(last'.op \in BatchOps /\ ~Returned(last')) =>
        /\ \A k \in BeforeFailure(last') :
              LET t == last'.processed[k].table
              IN  /\ bq'[t] = ProcessedAlone(last', k).bq[t]
                  /\ catalog'[t] = ProcessedAlone(last', k).cat[t]
        /\ \A t \in DOMAIN bq :
              ~InList(t, ProcessedTables(last')) =>
                  bq'[t] = bq[t] /\ catalog'[t] = catalog[t]]_vars

\* the inference for the second of three tables failed: the first table is
\* published with its columns, the third is as it was
C24_Witness ==
    /\ last.op = "generate_dataset_tables_columns_descriptions"
    /\ last.strategy = "NAIVE"
    /\ last.listed = << <<"p.d.c", "p.d.a", "p.d.b">> >>
    /\ ProcessedTables(last) = <<"p.d.c", "p.d.a">>
    /\ ~Returned(last)
    /\ ~client_options.stage_for_review
    /\ bq["p.d.c"].description = AI_WARNING \o <<"X">>
    /\ bq["p.d.c"].schema[1].description = AI_WARNING \o <<"X", "1">>
    /\ bq["p.d.a"].schema = InitialSchema("p.d.a")
    /\ bq["p.d.b"] = [description |-> <<"old">>, schema |-> InitialSchema("p.d.b")]

\* C25: generate_table_description for a table that the warehouse does not
\* have raises NotFound at once: the warehouse is asked for the table once,
\* no signal is fetched, the model is not invoked, and the warehouse, the
\* catalog and the flags are left as they were.
C25_MissingTableNotFound ==
    [][(last'.op = "generate_table_description" /\ last'.table \notin DOMAIN bq) =>
        /\ last'.exc = "NotFound"
        /\ last'.log = <<"bq.get_table">>
        /\ last'.signals = NoSignals
        /\ last'.attempts = <<>>
        /\ last'.prompt = <<>>
        /\ last'.update_keys = <<>>
        /\ bq' = bq
        /\ catalog' = catalog
        /\ aspect_types' = aspect_types
        /\ client_options' = client_options]_vars

\* the call was made on a client with every signal flag set
C25_Witness ==
    /\ last.op = "generate_table_description"
    /\ last.table = MissingTable
    /\ last.exc = "NotFound"
    /\ client_options.use_lineage_tables
    /\ client_options.use_lineage_processes
    /\ client_options.use_profile
    /\ client_options.use_data_quality

\* the text that generation is to write for an output of the model
Disclosed(output) ==
    IF client_options.add_ai_warning THEN AI_WARNING \o output ELSE output

\* C26: every description that a generation writes is the output of the
\* model, preceded by the AI warning, once, when add_ai_warning is set and as
\* it is when not: the table's warehouse description, the overview, the
\* contents of the draft, and each column's description before it is cut to
\* MAX_COLUMN_DESC_LENGTH.
C26_WarningPrefixedOnce ==
    /\ (/\ last.op \in {"generate_table_description", "regenerate_table_description"}
        /\ Returned(last)
        /\ Stored(last)) =>
          /\ Len(last.generated) = 1
          /\ last.descriptions = <<Disclosed(last.generated[1])>>
          /\ IF client_options.stage_for_review
             THEN catalog[last.table][TableDraftKey].data.contents
                      = Disclosed(last.generated[1])
             ELSE /\ bq[last.table].description = Disclosed(last.generated[1])
                  /\ client_options.persist_to_dataplex_catalog =>
                        catalog[last.table][OverviewKey].data.content
                            = Disclosed(last.generated[1])
    /\ (last.op = "generate_columns_descriptions" /\ Returned(last)) =>
          /\ Len(last.generated) = Len(bq[last.table].schema)
          /\ \A i \in DOMAIN bq[last.table].schema :
                bq[last.table].schema[i].description
                    = Truncated(Disclosed(last.generated[i]))

\* a staged generation with the warning set: the draft holds the warning and
\* the three tokens of the output
C26_Witness ==
    /\ last.op = "generate_table_description"
    /\ Returned(last)
    /\ client_options.add_ai_warning
    /\ client_options.stage_for_review
    /\ last.generated = << <<"Y", "Y", "Y">> >>
    /\ Stored(last)
    /\ catalog[last.table][TableDraftKey].data.contents = AI_WARNING \o <<"Y", "Y", "Y">>

HasClause(prompt, clause) == \E i \in DOMAIN prompt : prompt[i] = clause

\* C27: when a generation call has ended the flags of the client are the
\* configured ones, and a call for a table that has source tables (source
\* jobs), on a client configured to use them, fetches them and puts their
\* clause in the prompt, whatever the calls before it met.
C27_SuppressionDoesNotLeak ==
    /\ last.op \in GenerationOps => client_options = configured
    /\ (/\ Prompted(last)
        /\ configured.use_lineage_tables
        /\ TableSources(last.table) # <<>>) =>
          /\ last.signals.table_sources_info = TableSources(last.table)
          /\ HasClause(last.prompt, "TABLE_DESCRIPTION_PROMPT_LINEAGE_TABLES")
    /\ (/\ Prompted(last)
        /\ ~LineageRejected(last)
        /\ configured.use_lineage_processes
        /\ JobSources(last.table) # <<>>) =>
          /\ last.signals.job_sources_info = JobSources(last.table)
          /\ HasClause(last.prompt, "TABLE_DESCRIPTION_PROMPT_LINEAGE_PROCESSES")

\* the flag was set when the call began and the call was given nothing for
\* the signal
NoSourceTables == client_options.use_lineage_tables /\ last'.signals.table_sources_info = <<>>
NoSourceJobs == client_options.use_lineage_processes /\ last'.signals.job_sources_info = <<>>

\* C28: when use_lineage_tables (use_lineage_processes) is set and the fetch
\* of the source tables (source jobs) returns nothing, the prompt of that
\* call has no lineage-tables (lineage-processes) clause; the prompt of a
\* table has no lineage-generation clause when neither signal is in use.
C28_EmptyLineageOmitsClause ==
    [][Prompted(last') =>
        /\ NoSourceTables =>
              ~HasClause(last'.prompt, "TABLE_DESCRIPTION_PROMPT_LINEAGE_TABLES")
        /\ NoSourceJobs =>
              ~HasClause(last'.prompt, "TABLE_DESCRIPTION_PROMPT_LINEAGE_PROCESSES")
        /\ (/\ client_options.use_lineage_tables => NoSourceTables
            /\ client_options.use_lineage_processes => NoSourceJobs) =>
              ~HasClause(last'.prompt, "TABLE_DESCRIPTION_GENERATION_LINEAGE")]_vars

\* C29: when use_profile (use_data_quality) is set and the scans hold no
\* profile (no quality result) for the table, the prompt of that call has no
\* profile (quality) clause.
C29_EmptyScanOmitsClause ==
    [][Prompted(last') =>
        /\ (client_options.use_profile /\ ProfileScan(last'.table) = <<>>) =>
              ~HasClause(last'.prompt, "TABLE_DESCRIPTION_PROMPT_PROFILE")
        /\ (client_options.use_data_quality /\ QualityScan(last'.table) = <<>>) =>
              ~HasClause(last'.prompt, "TABLE_DESCRIPTION_PROMPT_QUALITY")]_vars

\* the ten clauses of a table prompt, in the order of the claim
TableClauseOrder ==
    <<"SYSTEM_PROMPT",
      "TABLE_DESCRIPTION_PROMPT_BASE",
      "TABLE_DESCRIPTION_PROMPT_PROFILE",
      "TABLE_DESCRIPTION_PROMPT_QUALITY",
      "TABLE_DESCRIPTION_PROMPT_LINEAGE_TABLES",
      "TABLE_DESCRIPTION_PROMPT_LINEAGE_PROCESSES",
      "TABLE_DESCRIPTION_PROMPT_DOCUMENT",
      "TABLE_DESCRIPTION_GENERATION_BASE",
      "TABLE_DESCRIPTION_GENERATION_LINEAGE",
      "OUTPUT_FORMAT_PROMPT">>

\* the clauses the flags ask for
TableClauseWanted(opts, clause) ==
    CASE clause = "TABLE_DESCRIPTION_PROMPT_PROFILE" -> opts.use_profile
      [] clause = "TABLE_DESCRIPTION_PROMPT_QUALITY" -> opts.use_data_quality
      [] clause = "TABLE_DESCRIPTION_PROMPT_LINEAGE_TABLES" -> opts.use_lineage_tables
      [] clause = "TABLE_DESCRIPTION_PROMPT_LINEAGE_PROCESSES" -> opts.use_lineage_processes
      [] clause = "TABLE_DESCRIPTION_PROMPT_DOCUMENT" -> opts.use_ext_documents
      [] clause = "TABLE_DESCRIPTION_GENERATION_LINEAGE" ->
            opts.use_lineage_tables \/ opts.use_lineage_processes
      [] OTHER -> TRUE

ExpectedTablePrompt(opts) ==
    LET Wanted(clause) == TableClauseWanted(opts, clause)
    IN  SelectSeq(TableClauseOrder, Wanted)

\* C30: the prompt of kind TABLE is the ten clauses in their order, each
\* optional clause present exactly when its flag (for the lineage-generation
\* clause, either lineage flag) is set; it depends on the flags alone.
C30_TablePromptOrder ==
    last.op = "get_prompt_table" =>
        /\ last.prompt = ExpectedTablePrompt(client_options)
        /\ \A opts \in PromptOptions :
              (\A f \in {"use_profile", "use_data_quality", "use_lineage_tables",
                         "use_lineage_processes", "use_ext_documents"} :
                    opts[f] = client_options[f])
                => get_promtp(PROMPT_TYPE_TABLE, opts) = last.prompt

\* source jobs without source tables, a profile and a document: the prompt
\* has eight clauses, the lineage-generation clause last but one
C30_Witness ==
    /\ last.op = "get_prompt_table"
    /\ client_options.use_lineage_processes
    /\ ~client_options.use_lineage_tables
    /\ client_options.use_profile
    /\ ~client_options.use_data_quality
    /\ client_options.use_ext_documents
    /\ Len(last.prompt) = 8
    /\ last.prompt[7] = "TABLE_DESCRIPTION_GENERATION_LINEAGE"

\* the clauses the flags ask for in the prompt of a column
ColumnClauseWanted(opts, clause) ==
    CASE clause = "TABLE_DESCRIPTION_PROMPT_PROFILE" -> opts.use_profile
      [] clause = "TABLE_DESCRIPTION_PROMPT_QUALITY" -> opts.use_data_quality
      [] clause = "TABLE_DESCRIPTION_PROMPT_LINEAGE_TABLES" -> opts.use_lineage_tables
      [] clause = "TABLE_DESCRIPTION_PROMPT_LINEAGE_PROCESSES" -> opts.use_lineage_processes
      [] OTHER -> TRUE

SelectedColumnClauses(order, opts) ==
    LET Wanted(clause) == ColumnClauseWanted(opts, clause)
    IN  SelectSeq(order, Wanted)

\* C31 as stated: the prompt of kind COLUMN is the system preamble, the
\* column base instruction, the profile, quality, lineage-tables and
\* lineage-processes clauses each exactly when its flag is set, the
\* generation-base clause and the output-format clause, in this order.
C31_AsStated ==
    last.op = "get_prompt_columns" =>
        last.prompt = SelectedColumnClauses(
            <<"SYSTEM_PROMPT",
              "COLUMN_DESCRIPTION_PROMPT_BASE",
              "TABLE_DESCRIPTION_PROMPT_PROFILE",
              "TABLE_DESCRIPTION_PROMPT_QUALITY",
              "TABLE_DESCRIPTION_PROMPT_LINEAGE_TABLES",
              "TABLE_DESCRIPTION_PROMPT_LINEAGE_PROCESSES",
              "TABLE_DESCRIPTION_GENERATION_BASE",
              "OUTPUT_FORMAT_PROMPT">>, client_options)

\* C31, amended: the prompt of kind COLUMN is the system preamble, the column
\* base instruction, the profile, quality, lineage-tables and
\* lineage-processes clauses each exactly when its flag is set, and the
\* output-format clause, in this order; it never holds the generation-base
\* clause, the document clause or the lineage-generation clause.
C31_ColumnPromptOrder ==
    last.op = "get_prompt_columns" =>
        /\ last.prompt = SelectedColumnClauses(
              <<"SYSTEM_PROMPT",
                "COLUMN_DESCRIPTION_PROMPT_BASE",
                "TABLE_DESCRIPTION_PROMPT_PROFILE",
                "TABLE_DESCRIPTION_PROMPT_QUALITY",
                "TABLE_DESCRIPTION_PROMPT_LINEAGE_TABLES",
                "TABLE_DESCRIPTION_PROMPT_LINEAGE_PROCESSES",
                "OUTPUT_FORMAT_PROMPT">>, client_options)
        /\ ~HasClause(last.prompt, "TABLE_DESCRIPTION_GENERATION_BASE")
        /\ ~HasClause(last.prompt, "TABLE_DESCRIPTION_PROMPT_DOCUMENT")
        /\ ~HasClause(last.prompt, "TABLE_DESCRIPTION_GENERATION_LINEAGE")

\* every capability flag set, use_ext_documents too: the prompt has seven
\* clauses, the output format right after the lineage processes
C31_Witness ==
    /\ last.op = "get_prompt_columns"
    /\ client_options.use_profile
    /\ client_options.use_data_quality
    /\ client_options.use_lineage_tables
    /\ client_options.use_lineage_processes
    /\ client_options.use_ext_documents
    /\ Len(last.prompt) = 7
    /\ last.prompt[6] = "TABLE_DESCRIPTION_PROMPT_LINEAGE_PROCESSES"
    /\ last.prompt[7] = "OUTPUT_FORMAT_PROMPT"

\* the positions of a call in the log of an observation
Positions(obs, call) == {i \in DOMAIN obs.log : obs.log[i] = call}

\* a staged generation of a table description that got as far as the update
StagedGeneration(obs) ==
    /\ obs.op \in TableGenerations
    /\ Logged(obs, "catalog.get_aspect_type")

\* C32: in a staged generation the existence of the aspect type is checked
\* before the draft is written; the aspect type is created only when it was
\* absent, right after the check and once; an aspect type that exists stays,
\* so that a sequence of staged generations creates it at most once.
C32_AspectTypeCreatedOnce ==
    [][/\ aspect_types \subseteq aspect_types'
       /\ (last'.op \in TableGenerations /\ client_options.stage_for_review
           /\ Returned(last'))
            => StagedGeneration(last')
       /\ StagedGeneration(last') =>
            /\ client_options.stage_for_review
            /\ Cardinality(Positions(last', "catalog.get_aspect_type")) = 1
            /\ \A i \in Positions(last', "catalog.get_aspect_type"),
                  j \in Positions(last', "catalog.update_entry") : i < j
            /\ \A j \in Positions(last', "catalog.update_entry") :
                  ASPECT_TEMPLATE_name \in aspect_types'
            /\ IF ASPECT_TEMPLATE_name \in aspect_types
               THEN Positions(last', "catalog.create_aspect_type") = {}
               ELSE /\ Cardinality(Positions(last', "catalog.create_aspect_type")) = 1
                    /\ \A i \in Positions(last', "catalog.get_aspect_type") :
                          i + 1 \in Positions(last', "catalog.create_aspect_type")
                    /\ ASPECT_TEMPLATE_name \in aspect_types'
       /\ ~StagedGeneration(last') =>
            /\ Positions(last', "catalog.create_aspect_type") = {}
            /\ aspect_types' = aspect_types]_vars

\* the second staged generation of a client found the aspect type, did not
\* create it and stored the draft
C32_Witness ==
    /\ calls = 2
    /\ StagedGeneration(last)
    /\ Positions(last, "catalog.create_aspect_type") = {}
    /\ Stored(last)
    /\ ASPECT_TEMPLATE_name \in aspect_types

\* a staged generation created the aspect type, then stored the draft
C32_Created ==
    /\ StagedGeneration(last)
    /\ Positions(last, "catalog.create_aspect_type") # {}
    /\ Stored(last)

\* C33: the description accept_table_draft_description publishes is the
\* contents of the aspect of the staging type at path "": an aspect at a
\* column path, or of another type, never supplies it, whatever the order in
\* which the aspects of the entry are returned.
C33_AcceptIgnoresOtherPaths ==
    (last.op = "accept_table_draft_description" /\ last.descriptions # <<>>) =>
        \E k \in DOMAIN catalog[last.table] :
            /\ catalog[last.table][k].aspect_type = StagingAspectType
            /\ catalog[last.table][k].path = <<>>
            /\ last.descriptions = <<catalog[last.table][k].data.contents>>

SchemaWrites(obs) == Positions(obs, "bq.update_table(schema)")
Inferences(obs) ==
    Positions(obs, "llm.generate_content") \cup Positions(obs, "llm.generate_content(doc)")

\* the schema of the table after the step holds the description generated
\* for each of its columns
AllColumnsDescribed(obs) ==
    /\ Len(obs.descriptions) = Len(bq[obs.table].schema)
    /\ Len(bq'[obs.table].schema) = Len(bq[obs.table].schema)
    /\ \A i \in DOMAIN bq[obs.table].schema :
          bq'[obs.table].schema[i].description = Truncated(obs.descriptions[i])

\* C34: generate_columns_descriptions issues at most one schema write, after
\* the last inference and with a description generated for every column;
\* when it returns the write was issued; when the generation fails for a
\* column no schema write is issued; the warehouse is left as it was or
\* holds the new description of every column, never of a part of them.
C34_OneSchemaWrite ==
    [][last'.op = "generate_columns_descriptions" =>
        /\ Cardinality(SchemaWrites(last')) <= 1
        /\ Returned(last') => Cardinality(SchemaWrites(last')) = 1
        /\ \A j \in SchemaWrites(last') :
              /\ \A i \in Inferences(last') : i < j
              /\ Len(last'.generated) = Len(bq[last'.table].schema)
        /\ (last'.table \in DOMAIN bq
            /\ \E i \in DOMAIN last'.attempts : ~last'.attempts[i].ok
            /\ Len(last'.generated) < Len(bq[last'.table].schema))
              => SchemaWrites(last') = {}
        /\ SchemaWrites(last') = {} => bq' = bq
        /\ last'.table \in DOMAIN bq =>
              /\ bq'[last'.table].description = bq[last'.table].description
              /\ \/ bq'[last'.table].schema = bq[last'.table].schema
                 \/ AllColumnsDescribed(last')
        /\ \A t \in DOMAIN bq \ {last'.table} : bq'[t] = bq[t]]_vars

\* the inference for the second column failed after the first column had
\* been described: nothing was written
C34_Witness ==
    /\ last.op = "generate_columns_descriptions"
    /\ Len(last.generated) = 1
    /\ last.exc # NoException
    /\ SchemaWrites(last) = {}
    /\ \A i \in DOMAIN bq[last.table].schema :
          bq[last.table].schema[i].description = InitialSchema(last.table)[i].description

ColumnOps == {"generate_columns_descriptions", "accept_column_draft_description"}

\* C35: an error met while the descriptions of the columns are generated or
\* the draft of a column is accepted reaches the caller as it was raised: a
\* missing table as NotFound, an inference that failed as the error of its
\* last attempt, a schema write the warehouse rejected as the warehouse's
\* error.
C35_ErrorsKeepTheirKind ==
    last.op \in ColumnOps =>
        /\ last.table \notin DOMAIN bq => last.exc = "NotFound"
        /\ (last.attempts # <<>> /\ ~last.attempts[Len(last.attempts)].ok)
              => last.exc = last.attempts[Len(last.attempts)].error
        /\ (Logged(last, "bq.update_table(schema)") /\ ~Returned(last))
              => last.exc = "WarehouseError"

\* C36: a generation of a table description that searched the lineage links
\* goes on to the inference whether or not the search failed, and, when the
\* inference succeeds, to the write: the failure of the search never reaches
\* the caller.
C36_LineageFailureIsSoft ==
    (last.op = "generate_table_description" /\ Logged(last, "lineage.search_links")) =>
        /\ last.exc # "LineageError"
        /\ last.attempts # <<>>
        /\ last.generated # <<>> => Logged(last, "bq.update_table(description)")

\* a generation of a table description by a client that publishes directly
DirectPublish ==
    /\ last'.op \in TableGenerations
    /\ ~client_options.stage_for_review
    /\ last'.descriptions # <<>>

\* C37: when a description is published directly, the warehouse description
\* is written before the overview aspect, and the overview aspect only after
\* the warehouse took the description; a warehouse write that fails reaches
\* the caller and leaves the catalog as it was, so the catalog never gets the
\* new description while the warehouse keeps the old one.
C37_WarehouseBeforeCatalog ==
    [][DirectPublish =>
        /\ Positions(last', "bq.update_table(description)") # {}
        /\ \A i \in Positions(last', "bq.update_table(description)"),
              j \in Positions(last', "catalog.update_entry") : i < j
        /\ Positions(last', "catalog.update_entry") # {} =>
              /\ client_options.persist_to_dataplex_catalog
              /\ bq'[last'.table].description = last'.descriptions[1]
        /\ bq'[last'.table].description # last'.descriptions[1] =>
              /\ ~Returned(last')
              /\ catalog' = catalog
        /\ catalog' # catalog =>
              /\ catalog'[last'.table][OverviewKey].data.content = last'.descriptions[1]
              /\ bq'[last'.table].description = last'.descriptions[1]]_vars

\* the warehouse rejected the description of a client that also persists to
\* the catalog: no request reached the catalog
C37_Witness ==
    /\ last.op = "generate_table_description"
    /\ ~client_options.stage_for_review
    /\ client_options.persist_to_dataplex_catalog
    /\ last.descriptions # <<>>
    /\ last.exc = "WarehouseError"
    /\ last.update_keys = <<>>
    /\ bq[last.table].description = <<"old">>

\* the catalog rejected a request of the call
CatalogUpdateFailed(obs) == \E i \in DOMAIN obs.stored : ~obs.stored[i]

\* C38: an update the catalog rejects is not reported to the caller:
\* generate_table_description returns although the draft or the overview
\* was not stored, and accept_table_draft_description goes on to write the
\* warehouse description after the overview was rejected, so that the
\* warehouse holds the accepted contents and the catalog does not.
C38_CatalogFailureSwallowed ==
    [][CatalogUpdateFailed(last') =>
        /\ Returned(last') \/ last'.exc = "WarehouseError"
        /\ catalog' = catalog
        /\ last'.op = "generate_table_description" => Returned(last')
        /\ last'.op = "accept_table_draft_description" =>
              /\ \A i \in Positions(last', "catalog.update_entry") :
                    \E j \in Positions(last', "bq.update_table(description)") : i < j
              /\ Returned(last') =>
                    /\ bq'[last'.table].description = last'.descriptions[1]
                    /\ (OverviewKey \in DOMAIN catalog[last'.table] =>
                          catalog'[last'.table][OverviewKey]
                            = catalog[last'.table][OverviewKey])
                    /\ (OverviewKey \notin DOMAIN catalog[last'.table] =>
                          OverviewKey \notin DOMAIN catalog'[last'.table])]_vars

\* an accepted draft is in the warehouse and the entry has no overview
C38_Witness ==
    /\ last.op = "accept_table_draft_description"
    /\ CatalogUpdateFailed(last)
    /\ Returned(last)
    /\ bq[last.table].description = last.descriptions[1]
    /\ OverviewKey \notin DOMAIN catalog[last.table]

\* a generation returned although the catalog had rejected its draft
C38_DraftLost ==
    /\ last.op = "generate_table_description"
    /\ client_options.stage_for_review
    /\ CatalogUpdateFailed(last)
    /\ Returned(last)
    /\ TableDraftKey \notin DOMAIN catalog[last.table]

AcceptOps == {"accept_table_draft_description", "accept_column_draft_description"}

\* the draft aspects of an entry
Drafts(entry) == {k \in DOMAIN entry : entry[k].aspect_type = StagingAspectType}

\* what get_entry returns of the entry of table_fqn in the catalog cat
EntryOf(cat, table_fqn, types) ==
    Restrict(cat[table_fqn],
             {k \in DOMAIN cat[table_fqn] : cat[table_fqn][k].aspect_type \in types})

\* what the two accept operations would publish from the catalog cat when
\* the aspects are iterated in the given order
TableAccepted(cat, table_fqn, order) ==
    LET entry == EntryOf(cat, table_fqn, {StagingAspectType, OverviewAspectType})
    IN  accept_table_scan(entry, IterationOrder(entry, order), 1, NoneValue)

ColumnAccepted(cat, table_fqn, column_name, order) ==
    LET entry == EntryOf(cat, table_fqn, {StagingAspectType})
    IN  accept_column_scan(entry, IterationOrder(entry, order), 1, column_name, NoneValue)

\* C39: accept_table_draft_description and accept_column_draft_description
\* leave every draft aspect as it was, field by field, and create none, so
\* that accepting again, with the aspects returned in the same order,
\* publishes the same contents.
C39_AcceptLeavesDrafts ==
    [][last'.op \in AcceptOps =>
        \A t \in DOMAIN catalog :
            /\ Drafts(catalog'[t]) = Drafts(catalog[t])
            /\ \A k \in Drafts(catalog[t]) :
                  /\ catalog'[t][k].path = catalog[t][k].path
                  /\ DOMAIN catalog'[t][k].data = DOMAIN catalog[t][k].data
                  /\ \A f \in DOMAIN catalog[t][k].data :
                        catalog'[t][k].data[f] = catalog[t][k].data[f]
            /\ \A order \in Orderings(DOMAIN catalog'[t]) :
                  IF last'.op = "accept_table_draft_description"
                  THEN TableAccepted(catalog', t, order) = TableAccepted(catalog, t, order)
                  ELSE ColumnAccepted(catalog', t, last'.column, order)
                         = ColumnAccepted(catalog, t, last'.column, order)]_vars

\* the second call of a client accepted the table's draft that its first
\* call had accepted: the draft is as the reviewer left it
C39_Witness ==
    /\ calls = 2
    /\ last.op = "accept_table_draft_description"
    /\ Returned(last) /\ Stored(last)
    /\ OverviewKey \in DOMAIN catalog[last.table]
    /\ TableDraftKey \in DOMAIN catalog[last.table]
    /\ catalog[last.table][TableDraftKey] = ReviewedEntry[TableDraftKey]
    /\ last.descriptions = <<ReviewedEntry[TableDraftKey].data.contents>>
    /\ bq[last.table].description = ReviewedEntry[TableDraftKey].data.contents

\* the flags no operation assigns after the construction
FixedFlags ==
    {"use_profile", "use_data_quality", "use_ext_documents",
     "persist_to_dataplex_catalog", "stage_for_review", "add_ai_warning"}

\* the flags the lineage lookups clear
LineageFlags == {"use_lineage_tables", "use_lineage_processes"}

====
